---- MODULE Spec2Model ----
(***************************************************************************)
(* A model of the Tetris simulation core (src/src/tetris.py,               *)
(* src/src/game_states.py, src/src/powerups.py, src/tetromino.py,          *)
(* src/src/config.py).                                                     *)
(*                                                                         *)
(* The TetrisGame object is one record, `game`; every method of the code   *)
(* is an operator from a game record (and the method's arguments and       *)
(* random draws) to the game record the method leaves behind.  Python      *)
(* lists are sequences, so list index i is sequence index i + 1.           *)
(* Times are in ticks of a scaled configuration (a GameConfig subclass     *)
(* with small timing values, as the test suites use).                      *)
(***************************************************************************)
EXTENDS Integers, Sequences, FiniteSets, TLC

VARIABLE game

vars == <<game>>

(***************************************************************************)
(* Bounds of the model: a small board and a scaled timing configuration.   *)
(***************************************************************************)
GRID_WIDTH == 4
GRID_HEIGHT == 4
MaxPieces == 3
ChainPieces == 8
ComboPieces == 5
RisingPieces == 4
PowerPieces == 5
PausePieces == 4
DemoPieces == 4
OverPieces == 3
HoldPieces == 5
MenuPieces == 7
FallPieces == 5
TimerPieces == 4
PlanPieces == 5
PhantomPieces == 6
FreezePieces == 4
MaxOffset == 3
MaxDelta == 2
MaxLevel == 3
MaxChain == 6
MaxSoftDrops == 2
MaxRemaining == 4

INITIAL_FALL_SPEED == 3
LEVEL_SPEED_DECREASE == 1
MIN_FALL_SPEED == 1
CLEAR_ANIMATION_DURATION == 2
COMBO_DISPLAY_DURATION == 2
LINES_PER_LEVEL == 2
DEMO_GAME_OVER_DELAY == 3
RISING_INITIAL_INTERVAL == 4
RISING_INTERVAL_DECREASE == 1
RISING_MIN_INTERVAL == 2
RISING_WARNING_TIME == 1
RISING_ANIMATION_DURATION == 2
RISING_MANUAL_COOLDOWN == 3
RISING_SURVIVAL_INTERVAL == 3
DURATION_TIME_DILATOR == 3
DURATION_SCORE_AMPLIFIER == 4
DURATION_PRECISION_LOCK == 1
DEMO_MOVE_DELAY == 2
DEMO_ROTATION_DELAY == 1
DEMO_MOVE_DELAY_H == 1
DEMO_DROP_DELAY == 2
DEMO_FAST_DROP_DELAY == 1
AiPieces == 5
LivePieces == 3

(***************************************************************************)
(* Program constants (src/src/config.py).  Multipliers are fixed-point     *)
(* numbers in tenths: 10 is 1.0, 50 is 5.0.                                *)
(***************************************************************************)
SOFT_DROP_BONUS == 1
HARD_DROP_BONUS == 2
COMBO_MULTIPLIER_BASE == 10
COMBO_MULTIPLIER_INCREMENT == 10
MAX_COMBO_MULTIPLIER == 50
RISING_HOLES_MIN == 1
RISING_HOLES_MAX == 3
USES_LINE_BOMB == 1
USES_PHANTOM_MODE == 3

LINE_SCORES == [n \in 1..4 |-> CASE n = 1 -> 100 [] n = 2 -> 300 [] n = 3 -> 500 [] n = 4 -> 800]

SHAPES ==
    [I |-> << <<1, 1, 1, 1>> >>,
     O |-> << <<1, 1>>, <<1, 1>> >>,
     T |-> << <<0, 1, 0>>, <<1, 1, 1>> >>,
     S |-> << <<0, 1, 1>>, <<1, 1, 0>> >>,
     Z |-> << <<1, 1, 0>>, <<0, 1, 1>> >>,
     J |-> << <<1, 0, 0>>, <<1, 1, 1>> >>,
     L |-> << <<0, 0, 1>>, <<1, 1, 1>> >>]

COLORS ==
    [I |-> "CYAN", O |-> "YELLOW", T |-> "PURPLE", S |-> "GREEN",
     Z |-> "RED", J |-> "BLUE", L |-> "ORANGE"]

RISING_LINE_COLOR == "GRAY80"

\* None, as a grid cell
None == "None"

POWER_UP_TYPES ==
    [time_dilator |-> [kind |-> "duration", amount |-> DURATION_TIME_DILATOR],
     score_amplifier |-> [kind |-> "duration", amount |-> DURATION_SCORE_AMPLIFIER],
     line_bomb |-> [kind |-> "uses", amount |-> USES_LINE_BOMB],
     phantom_mode |-> [kind |-> "uses", amount |-> USES_PHANTOM_MODE],
     precision_lock |-> [kind |-> "duration", amount |-> DURATION_PRECISION_LOCK]]

Min(a, b) == IF a < b THEN a ELSE b
Max(a, b) == IF a > b THEN a ELSE b

(***************************************************************************)
(* Tetromino (src/tetromino.py)                                            *)
(***************************************************************************)
\* a dict is a function; the empty dict is the function of empty domain
EmptyDict == [k \in {} |-> 0]
DictPut(d, k, v) == [x \in (DOMAIN d) \cup {k} |-> IF x = k THEN v ELSE d[x]]
DictDel(d, k) == [x \in (DOMAIN d) \ {k} |-> d[x]]

\* the value None of a piece slot
NoPiece == [type |-> "None", shape |-> <<>>, color |-> None, x |-> 0, y |-> 0,
            powerup_blocks |-> EmptyDict]

Tetromino(shape_type) ==
    [type |-> shape_type,
     shape |-> SHAPES[shape_type],
     color |-> COLORS[shape_type],
     x |-> (GRID_WIDTH \div 2) - (Len(SHAPES[shape_type][1]) \div 2),
     y |-> 0,
     powerup_blocks |-> EmptyDict]

\* zip(*shape[::-1]): row i of the result is column i of the shape, read bottom-up
rotate_clockwise(shape) ==
    [i \in 1..Len(shape[1]) |-> [j \in 1..Len(shape) |-> shape[Len(shape) + 1 - j][i]]]

\* zip(*shape) reversed: row i of the result is column C-1-i of the shape
rotate_counterclockwise(shape) ==
    [i \in 1..Len(shape[1]) |-> [j \in 1..Len(shape) |-> shape[j][Len(shape[1]) + 1 - i]]]

\* local (x, y) coordinates of the filled cells of a shape matrix
LocalBlocks(shape) ==
    {<<lx, ly>> \in (0..3) \X (0..3) :
        /\ ly < Len(shape)
        /\ lx < Len(shape[ly + 1])
        /\ shape[ly + 1][lx + 1] # 0}

get_blocks(piece) ==
    {<<piece.x + b[1], piece.y + b[2]>> : b \in LocalBlocks(piece.shape)}

(***************************************************************************)
(* Game states (src/src/game_states.py): one record per state object.      *)
(***************************************************************************)
NoState == [name |-> "None"]
PlayingState == [name |-> "Playing"]
PausedState == [name |-> "Paused"]
LineClearingState(previous_state) == [name |-> "LineClearing", previous_state |-> previous_state]
GameOverState == [name |-> "GameOver", game_over_time |-> 0]
DemoState == [name |-> "Demo"]

\* GameConfig.DIFFICULTY_SETTINGS, on the scale of the timing bounds; medium is
\* the configuration a session starts with
DIFFICULTY_SETTINGS ==
    [easy |-> [initial_speed |-> INITIAL_FALL_SPEED + 1,
               speed_decrease |-> LEVEL_SPEED_DECREASE,
               min_speed |-> MIN_FALL_SPEED + 1,
               rising_initial_interval |-> RISING_INITIAL_INTERVAL + 1,
               rising_interval_decrease |-> RISING_INTERVAL_DECREASE,
               rising_min_interval |-> RISING_MIN_INTERVAL + 1],
     medium |-> [initial_speed |-> INITIAL_FALL_SPEED,
                 speed_decrease |-> LEVEL_SPEED_DECREASE,
                 min_speed |-> MIN_FALL_SPEED,
                 rising_initial_interval |-> RISING_INITIAL_INTERVAL,
                 rising_interval_decrease |-> RISING_INTERVAL_DECREASE,
                 rising_min_interval |-> RISING_MIN_INTERVAL],
     hard |-> [initial_speed |-> INITIAL_FALL_SPEED - 1,
               speed_decrease |-> LEVEL_SPEED_DECREASE,
               min_speed |-> MIN_FALL_SPEED,
               rising_initial_interval |-> RISING_INITIAL_INTERVAL - 1,
               rising_interval_decrease |-> RISING_INTERVAL_DECREASE,
               rising_min_interval |-> RISING_MIN_INTERVAL],
     expert |-> [initial_speed |-> INITIAL_FALL_SPEED - 2,
                 speed_decrease |-> LEVEL_SPEED_DECREASE + 1,
                 min_speed |-> MIN_FALL_SPEED,
                 rising_initial_interval |-> RISING_INITIAL_INTERVAL - 2,
                 rising_interval_decrease |-> RISING_INTERVAL_DECREASE + 1,
                 rising_min_interval |-> RISING_MIN_INTERVAL - 1]]

options == <<"difficulty", "charged_blocks", "hold_blocks", "back">>
difficulty_levels == <<"easy", "medium", "hard", "expert">>

IndexOf(seq, x) == CHOOSE i \in 1..Len(seq) : seq[i] = x

\* ConfigMenuState.__init__: the first difficulty whose initial speed is the
\* configured one, medium if there is none
ConfigMenuState(config) ==
    LET matching == {i \in 1..Len(difficulty_levels) :
                        config.INITIAL_FALL_SPEED
                            = DIFFICULTY_SETTINGS[difficulty_levels[i]].initial_speed}
    IN  [name |-> "ConfigMenu",
         selected_option |-> 0,
         current_difficulty |->
             IF matching = {} THEN "medium"
             ELSE difficulty_levels[CHOOSE i \in matching : \A j \in matching : i <= j]]

\* a menu state that remembers the configuration and the fall speed it was
\* opened on (history, for the claims about leaving the menu)
Opened(menu, g) ==
    [f \in (DOMAIN menu) \cup {"opened"} |->
        IF f = "opened" THEN [config |-> g.config, fall_speed |-> g.fall_speed]
        ELSE menu[f]]

(***************************************************************************)
(* PowerUpManager (src/src/powerups.py)                                    *)
(***************************************************************************)
PowerUpKinds == DOMAIN POWER_UP_TYPES

should_spawn_powerup(g, roll) ==
    IF ~g.config.CHARGED_BLOCKS_ENABLED THEN FALSE ELSE roll

add_powerup_block(g, x, y, powerup_type) ==
    [g EXCEPT !.powerup_blocks = Append(@, <<x, y, powerup_type>>)]

\* the kinds of the blocks in the cleared lines, in list order
activated_in_lines(g, lines) ==
    LET InLines(b) == \E i \in 1..Len(lines) : lines[i] = b[2]
        hit == SelectSeq(g.powerup_blocks, InLines)
    IN  [i \in 1..Len(hit) |-> hit[i][3]]

remove_powerups_in_lines(g, lines) ==
    LET NotInLines(b) == ~(\E i \in 1..Len(lines) : lines[i] = b[2])
    IN  [g EXCEPT !.powerup_blocks = SelectSeq(@, NotInLines)]

ShiftByAllCleared(g, lines_cleared) ==
    IF Len(lines_cleared) = 0 THEN g
    ELSE [g EXCEPT !.powerup_blocks =
            [i \in 1..Len(@) |-> <<@[i][1], @[i][2] + Len(lines_cleared), @[i][3]>>]]

shift_powerups_down(g, lines_cleared) ==
    IF Len(lines_cleared) = 0 THEN g
    ELSE [g EXCEPT !.powerup_blocks =
            [i \in 1..Len(@) |->
                LET b == @[i]
                    shift_amount == Cardinality({k \in 1..Len(lines_cleared) : lines_cleared[k] > b[2]})
                IN  <<b[1], b[2] + shift_amount, b[3]>>]]

ActivateResets(g, powerup_type) ==
    [g EXCEPT !.active_powerups = DictPut(@, powerup_type, POWER_UP_TYPES[powerup_type].amount)]

activate_powerup(g, powerup_type) ==
    LET current == IF powerup_type \in DOMAIN g.active_powerups
                   THEN g.active_powerups[powerup_type] ELSE 0
    IN  [g EXCEPT !.active_powerups =
            DictPut(@, powerup_type, current + POWER_UP_TYPES[powerup_type].amount)]

TickKeepsExpired(g, delta_time) ==
    LET a == g.active_powerups
    IN  [g EXCEPT !.active_powerups =
            [k \in DOMAIN a |->
                IF POWER_UP_TYPES[k].kind = "duration" THEN a[k] - delta_time ELSE a[k]]]

powerup_update(g, delta_time) ==
    LET a == g.active_powerups
        expired == {k \in DOMAIN a :
                      POWER_UP_TYPES[k].kind = "duration" /\ a[k] - delta_time <= 0}
    IN  [g EXCEPT !.active_powerups =
            [k \in (DOMAIN a) \ expired |->
                IF POWER_UP_TYPES[k].kind = "duration" THEN a[k] - delta_time ELSE a[k]]]

is_active(g, powerup_type) == powerup_type \in DOMAIN g.active_powerups

use_powerup_ok(g, powerup_type) ==
    /\ powerup_type \in DOMAIN g.active_powerups
    /\ POWER_UP_TYPES[powerup_type].kind = "uses"
    /\ g.active_powerups[powerup_type] > 0

use_powerup(g, powerup_type) ==
    IF ~use_powerup_ok(g, powerup_type) THEN g
    ELSE IF g.active_powerups[powerup_type] - 1 <= 0
         THEN [g EXCEPT !.active_powerups = DictDel(@, powerup_type)]
         ELSE [g EXCEPT !.active_powerups[powerup_type] = @ - 1]

clear_all(g) == [g EXCEPT !.powerup_blocks = <<>>, !.active_powerups = EmptyDict]

(***************************************************************************)
(* TetrisGame (src/src/tetris.py)                                          *)
(***************************************************************************)
EmptyRow == [x \in 1..GRID_WIDTH |-> None]
EmptyGrid == [y \in 1..GRID_HEIGHT |-> EmptyRow]

\* A random draw of get_random_piece: random.choice of the shape, the roll of
\* should_spawn_powerup, random.choice of the block and of the power-up type.
get_random_piece(g, draw) ==
    LET piece == Tetromino(draw.type)
    IN  IF should_spawn_powerup(g, draw.roll)
        THEN [piece EXCEPT !.powerup_blocks = DictPut(@, draw.cell, draw.kind)]
        ELSE piece

ValidWithoutPhantom(g, piece, offset_x, offset_y) ==
    \A b \in get_blocks(piece) :
        LET new_x == b[1] + offset_x
            new_y == b[2] + offset_y
        IN  /\ ~(new_x < 0 \/ new_x >= GRID_WIDTH \/ new_y >= GRID_HEIGHT)
            /\ ~(new_y >= 0 /\ g.grid[new_y + 1][new_x + 1] # None)

is_valid_position(g, piece, offset_x, offset_y) ==
    \A b \in get_blocks(piece) :
        LET new_x == b[1] + offset_x
            new_y == b[2] + offset_y
        IN  /\ ~(new_x < 0 \/ new_x >= GRID_WIDTH \/ new_y >= GRID_HEIGHT)
            /\ (new_y >= 0 /\ g.grid[new_y + 1][new_x + 1] # None)
                   => is_active(g, "phantom_mode")

spawn_new_piece(g, draw) ==
    LET g1 == [g EXCEPT !.current_piece = g.next_piece,
                        !.next_piece = get_random_piece(g, draw),
                        !.can_hold = TRUE,
                        !.holds = 0,
                        !.rng_draws = @ + 1,
                        !.ev = @ \cup {"spawn"}]
    IN  IF g1.current_piece.type # "None" /\ ~is_valid_position(g1, g1.current_piece, 0, 0)
        THEN [g1 EXCEPT !.game_over = TRUE, !.state = GameOverState,
                        !.ev = @ \cup {"spawn_blocked"}]
        ELSE g1

\* the boolean move_piece returns
move_ok(g, dx, dy) ==
    /\ g.current_piece.type # "None"
    /\ is_valid_position(g, g.current_piece, dx, dy)

move_piece(g, dx, dy) ==
    IF move_ok(g, dx, dy)
    THEN [g EXCEPT !.current_piece.x = @ + dx, !.current_piece.y = @ + dy]
    ELSE g

kicks == << <<0, 0>>, <<-1, 0>>, <<1, 0>>, <<0, -1>>, <<-1, -1>>, <<1, -1>> >>

RotateNoRestore(g) ==
    IF g.current_piece.type = "None" THEN g
    ELSE LET rotated == [g.current_piece EXCEPT !.shape = rotate_clockwise(@)]
             valid == {i \in 1..Len(kicks) :
                          is_valid_position(g, rotated, kicks[i][1], kicks[i][2])}
         IN  IF valid # {}
             THEN LET i == CHOOSE k \in valid : \A m \in valid : k <= m
                  IN  [g EXCEPT !.current_piece =
                          [rotated EXCEPT !.x = @ + kicks[i][1], !.y = @ + kicks[i][2]],
                                !.ev = @ \cup {"rotated"}]
             ELSE [g EXCEPT !.current_piece = rotated, !.ev = @ \cup {"rotate_failed"}]

RotateLastKick(g) ==
    IF g.current_piece.type = "None" THEN g
    ELSE LET original_shape == g.current_piece.shape
             rotated == [g.current_piece EXCEPT !.shape = rotate_clockwise(@)]
             valid == {i \in 1..Len(kicks) :
                          is_valid_position(g, rotated, kicks[i][1], kicks[i][2])}
         IN  IF valid # {}
             THEN LET i == CHOOSE k \in valid : \A m \in valid : k >= m
                  IN  [g EXCEPT !.current_piece =
                          [rotated EXCEPT !.x = @ + kicks[i][1], !.y = @ + kicks[i][2]],
                                !.ev = @ \cup {"rotated"}]
             ELSE [g EXCEPT !.current_piece = [rotated EXCEPT !.shape = original_shape],
                            !.ev = @ \cup {"rotate_failed"}]

rotate_piece(g) ==
    IF g.current_piece.type = "None" THEN g
    ELSE LET original_shape == g.current_piece.shape
             rotated == [g.current_piece EXCEPT !.shape = rotate_clockwise(@)]
             valid == {i \in 1..Len(kicks) :
                          is_valid_position(g, rotated, kicks[i][1], kicks[i][2])}
         IN  IF valid # {}
             THEN LET i == CHOOSE k \in valid : \A m \in valid : k <= m
                  IN  [g EXCEPT !.current_piece =
                          [rotated EXCEPT !.x = @ + kicks[i][1], !.y = @ + kicks[i][2]],
                                !.ev = @ \cup {"rotated"}]
             ELSE [g EXCEPT !.current_piece = [rotated EXCEPT !.shape = original_shape],
                            !.ev = @ \cup {"rotate_failed"}]

\* rows y (0-based, ascending) of the grid in which every cell is occupied
full_rows(grid) ==
    LET IsFull(y) == \A x \in 1..GRID_WIDTH : grid[y + 1][x] # None
    IN  SelectSeq([i \in 1..GRID_HEIGHT |-> i - 1], IsFull)

RECURSIVE activate_all(_, _)
activate_all(g, kinds) ==
    IF kinds = <<>> THEN g
    ELSE activate_all(activate_powerup(g, Head(kinds)), Tail(kinds))

new_level(g) == (g.lines_cleared \div LINES_PER_LEVEL) + 1

level_fall_speed(g, level) ==
    Max(g.config.MIN_FALL_SPEED,
        g.config.INITIAL_FALL_SPEED - (level - 1) * g.config.LEVEL_SPEED_DECREASE)

\* the combo multiplier of a clear made at combo count c, in tenths
ComboAlwaysApplied(c) ==
    Min(COMBO_MULTIPLIER_BASE + (c + 1) * COMBO_MULTIPLIER_INCREMENT, MAX_COMBO_MULTIPLIER)

clear_multiplier(c) ==
    IF c > 0
    THEN Min(COMBO_MULTIPLIER_BASE + c * COMBO_MULTIPLIER_INCREMENT, MAX_COMBO_MULTIPLIER)
    ELSE 10

clear_lines(g) ==
    LET lines_to_clear == full_rows(g.grid)
        num_lines == Len(lines_to_clear)
        base_score == (IF num_lines \in DOMAIN LINE_SCORES THEN LINE_SCORES[num_lines] ELSE 0)
                      * g.level
        multiplier == clear_multiplier(g.combo_count)
        combo_score == IF g.combo_count > 0 THEN (base_score * multiplier) \div 10
                       ELSE base_score
        final_score == IF is_active(g, "score_amplifier") THEN combo_score * 2
                       ELSE combo_score
        g1 == [g EXCEPT !.clearing_lines = lines_to_clear,
                        !.clear_animation_time = 0,
                        !.lines_cleared = @ + num_lines,
                        !.combo_multiplier = multiplier,
                        !.score = @ + final_score,
                        !.combo_count = @ + 1,
                        !.combo_display_time =
                            IF g.combo_count + 1 > 1 THEN COMBO_DISPLAY_DURATION ELSE @,
                        !.ev = @ \cup {"clear"}]
        g2 == IF new_level(g1) > g1.level
              THEN [g1 EXCEPT !.level = new_level(g1),
                              !.fall_speed = level_fall_speed(g1, new_level(g1))]
              ELSE g1
        activated_powerups == activated_in_lines(g2, lines_to_clear)
        g3 == activate_all(remove_powerups_in_lines(g2, lines_to_clear), activated_powerups)
    IN  IF num_lines = 0 THEN g
        ELSE [g3 EXCEPT !.state = LineClearingState(g.state)]

\* the filled cells of the shape in the order lock_piece visits them
shape_cells(shape) ==
    LET cols == Len(shape[1])
        all == [n \in 1..(Len(shape) * cols) |-> <<(n - 1) % cols, (n - 1) \div cols>>]
        Filled(c) == shape[c[2] + 1][c[1] + 1] # 0
    IN  SelectSeq(all, Filled)

RECURSIVE transfer_powerups(_, _, _)
transfer_powerups(g, piece, cells) ==
    IF cells = <<>> THEN g
    ELSE LET c == Head(cells)
             grid_x == piece.x + c[1]
             grid_y == piece.y + c[2]
         IN  IF grid_y >= 0 /\ c \in DOMAIN piece.powerup_blocks
             THEN transfer_powerups(
                      add_powerup_block(g, grid_x, grid_y, piece.powerup_blocks[c]),
                      piece, Tail(cells))
             ELSE transfer_powerups(g, piece, Tail(cells))

place_blocks(grid, piece) ==
    LET blocks == get_blocks(piece)
    IN  [y \in 1..Len(grid) |->
            [x \in 1..Len(grid[y]) |->
                IF y - 1 >= 0 /\ <<x - 1, y - 1>> \in blocks
                THEN piece.color ELSE grid[y][x]]]

LockKeepsCombo(g, draw) ==
    IF g.current_piece.type = "None" THEN g
    ELSE LET g1 == IF is_active(g, "phantom_mode") THEN use_powerup(g, "phantom_mode") ELSE g
             g2 == [g1 EXCEPT !.grid = place_blocks(@, g.current_piece), !.ev = @ \cup {"lock"}]
             g3 == transfer_powerups(g2, g.current_piece, shape_cells(g.current_piece.shape))
             g4 == clear_lines(g3)
         IN  IF g4.clearing_lines = <<>>
             THEN spawn_new_piece(g4, draw)
             ELSE g4

lock_piece(g, draw) ==
    IF g.current_piece.type = "None" THEN g
    ELSE CHOOSE t \in
             {IF g4.clearing_lines = <<>>
              THEN spawn_new_piece([g4 EXCEPT !.combo_count = 0, !.combo_multiplier = 10], draw)
              ELSE g4 :
                 g4 \in {clear_lines(g3) :
                     g3 \in {transfer_powerups(g2, g.current_piece,
                                               shape_cells(g.current_piece.shape)) :
                         g2 \in {[g1 EXCEPT !.grid = place_blocks(@, g.current_piece),
                                            !.ev = @ \cup {"lock"}] :
                             g1 \in {IF is_active(g, "phantom_mode")
                                     THEN use_powerup(g, "phantom_mode") ELSE g}}}}} : TRUE

\* the loop of hard_drop: the game after it and the number of moves it made
RECURSIVE drop_loop(_, _)
drop_loop(g, drop_distance) ==
    IF move_ok(g, 0, 1) THEN drop_loop(move_piece(g, 0, 1), drop_distance + 1)
    ELSE <<g, drop_distance>>

HardDropFlatBonus(g, draw) ==
    IF g.current_piece.type = "None" THEN g
    ELSE LET dropped == drop_loop(g, 0)
         IN  lock_piece([dropped[1] EXCEPT !.score = @ + HARD_DROP_BONUS], draw)

hard_drop(g, draw) ==
    IF g.current_piece.type = "None" THEN g
    ELSE LET dropped == drop_loop(g, 0)
         IN  lock_piece([dropped[1] EXCEPT !.score = @ + dropped[2] * HARD_DROP_BONUS], draw)

RemoveByIndexShift(g, draw) ==
    IF g.clearing_lines = <<>> THEN g
    ELSE LET num_lines == Len(g.clearing_lines)
             Kept(y) == \A i \in 1..num_lines : g.clearing_lines[i] - (i - 1) # y
             kept_rows == SelectSeq([i \in 1..GRID_HEIGHT |-> i - 1], Kept)
             new_grid == [i \in 1..Len(kept_rows) |-> g.grid[kept_rows[i] + 1]]
             empty_rows == [i \in 1..num_lines |-> EmptyRow]
             g1 == [g EXCEPT !.grid = empty_rows \o new_grid, !.ev = @ \cup {"finish"},
                             !.removed = g.clearing_lines]
             g2 == shift_powerups_down(g1, g.clearing_lines)
         IN  spawn_new_piece([g2 EXCEPT !.clearing_lines = <<>>], draw)

finish_clearing_animation(g, draw) ==
    IF g.clearing_lines = <<>> THEN g
    ELSE LET num_lines == Len(g.clearing_lines)
             Kept(y) == \A i \in 1..num_lines : g.clearing_lines[i] # y
             kept_rows == SelectSeq([i \in 1..GRID_HEIGHT |-> i - 1], Kept)
             new_grid == [i \in 1..Len(kept_rows) |-> g.grid[kept_rows[i] + 1]]
             empty_rows == [i \in 1..num_lines |-> EmptyRow]
             g1 == [g EXCEPT !.grid = empty_rows \o new_grid, !.ev = @ \cup {"finish"},
                             !.removed = g.clearing_lines]
             g2 == shift_powerups_down(g1, g.clearing_lines)
         IN  spawn_new_piece([g2 EXCEPT !.clearing_lines = <<>>], draw)

HoldKeepsFlag(g, draw) ==
    IF ~g.config.HOLD_ENABLED THEN [g EXCEPT !.ev = @ \cup {"hold_ignored"}]
    ELSE IF ~g.can_hold \/ g.current_piece.type = "None"
         THEN [g EXCEPT !.ev = @ \cup {"hold_ignored"}]
    ELSE IF g.hold_piece.type = "None"
         THEN [spawn_new_piece([g EXCEPT !.hold_piece = Tetromino(g.current_piece.type),
                                         !.ev = @ \cup {"hold"}], draw)
                  EXCEPT !.can_hold = FALSE, !.holds = 1]
         ELSE [g EXCEPT !.current_piece = Tetromino(g.hold_piece.type),
                        !.hold_piece = Tetromino(g.current_piece.type),
                        !.holds = @ + 1,
                        !.ev = @ \cup {"hold"}]

HoldKeepsPlacement(g, draw) ==
    IF ~g.config.HOLD_ENABLED THEN [g EXCEPT !.ev = @ \cup {"hold_ignored"}]
    ELSE IF ~g.can_hold \/ g.current_piece.type = "None"
         THEN [g EXCEPT !.ev = @ \cup {"hold_ignored"}]
    ELSE IF g.hold_piece.type = "None"
         THEN [spawn_new_piece([g EXCEPT !.hold_piece = g.current_piece,
                                         !.ev = @ \cup {"hold"}], draw)
                  EXCEPT !.can_hold = FALSE, !.holds = 1]
         ELSE [g EXCEPT !.current_piece = g.hold_piece,
                        !.hold_piece = g.current_piece,
                        !.can_hold = FALSE,
                        !.holds = @ + 1,
                        !.ev = @ \cup {"hold"}]

\* TetrisGame.hold_current_piece; holds counts the holds that took effect since
\* the last spawn that was not made by a hold
hold_current_piece(g, draw) ==
    IF ~g.config.HOLD_ENABLED THEN [g EXCEPT !.ev = @ \cup {"hold_ignored"}]
    ELSE IF ~g.can_hold \/ g.current_piece.type = "None"
         THEN [g EXCEPT !.ev = @ \cup {"hold_ignored"}]
    ELSE IF g.hold_piece.type = "None"
         THEN [spawn_new_piece([g EXCEPT !.hold_piece = Tetromino(g.current_piece.type),
                                         !.ev = @ \cup {"hold"}], draw)
                  EXCEPT !.can_hold = FALSE, !.holds = 1]
         ELSE [g EXCEPT !.current_piece = Tetromino(g.hold_piece.type),
                        !.hold_piece = Tetromino(g.current_piece.type),
                        !.can_hold = FALSE,
                        !.holds = @ + 1,
                        !.ev = @ \cup {"hold"}]

\* float("inf"): larger than every value a timer of the model reaches
INF == 1000000

calculate_rising_interval(g) ==
    IF ~g.config.RISING_LINES_ENABLED \/ g.config.RISING_MODE = "off" THEN INF
    ELSE IF g.config.RISING_MODE = "manual" THEN INF
    ELSE IF g.config.RISING_MODE = "survival" THEN g.config.RISING_SURVIVAL_INTERVAL
    ELSE Max(g.config.RISING_INITIAL_INTERVAL
                 - (g.level - 1) * g.config.RISING_INTERVAL_DECREASE,
             g.config.RISING_MIN_INTERVAL)

\* holes: the columns random.sample picks for the random.randint number of holes
HoleDraws ==
    {h \in SUBSET (0..(GRID_WIDTH - 1)) :
        Cardinality(h) >= RISING_HOLES_MIN /\ Cardinality(h) <= RISING_HOLES_MAX}

RisingLineShort(holes) ==
    [x \in 1..(GRID_WIDTH - 1) |-> IF (x - 1) \in holes THEN None ELSE RISING_LINE_COLOR]

RisingLineFull(holes) ==
    [x \in 1..GRID_WIDTH |-> RISING_LINE_COLOR]

generate_rising_line(holes) ==
    [x \in 1..GRID_WIDTH |-> IF (x - 1) \in holes THEN None ELSE RISING_LINE_COLOR]

will_rise_cause_game_over(g) ==
    \E x \in 1..GRID_WIDTH : g.grid[1][x] # None

RiseIgnoresOverflow(g, holes) ==
    IF ~g.config.RISING_LINES_ENABLED \/ g.config.RISING_MODE = "off" THEN g
    ELSE LET g1 == [g EXCEPT
                 !.grid = Append([i \in 1..(GRID_HEIGHT - 1) |-> g.grid[i + 1]],
                                 generate_rising_line(holes)),
                 !.current_piece.y = IF g.current_piece.type # "None" THEN @ - 1 ELSE @,
                 !.powerup_blocks =
                     LET Keep(b) == b[2] > 0
                         kept == SelectSeq(g.powerup_blocks, Keep)
                     IN  [i \in 1..Len(kept) |-> <<kept[i][1], kept[i][2] - 1, kept[i][3]>>],
                 !.rising_animation_active = TRUE,
                 !.rising_animation_progress = 0,
                 !.rising_timer = 0,
                 !.rising_warning_active = FALSE,
                 !.ev = @ \cup {"rise"}]
         IN  [g1 EXCEPT !.rising_interval = calculate_rising_interval(g1)]

RiseKeepsPiece(g, holes) ==
    IF ~g.config.RISING_LINES_ENABLED \/ g.config.RISING_MODE = "off" THEN g
    ELSE IF will_rise_cause_game_over(g)
    THEN [g EXCEPT !.game_over = TRUE, !.state = GameOverState,
                   !.ev = @ \cup {"rise_overflow"}]
    ELSE LET g1 == [g EXCEPT
                 !.grid = Append([i \in 1..(GRID_HEIGHT - 1) |-> g.grid[i + 1]],
                                 generate_rising_line(holes)),
                 !.powerup_blocks =
                     LET Keep(b) == b[2] > 0
                         kept == SelectSeq(g.powerup_blocks, Keep)
                     IN  [i \in 1..Len(kept) |-> <<kept[i][1], kept[i][2] - 1, kept[i][3]>>],
                 !.rising_animation_active = TRUE,
                 !.rising_animation_progress = 0,
                 !.rising_timer = 0,
                 !.rising_warning_active = FALSE,
                 !.ev = @ \cup {"rise"}]
         IN  [g1 EXCEPT !.rising_interval = calculate_rising_interval(g1)]

trigger_rising_line(g, holes) ==
    IF ~g.config.RISING_LINES_ENABLED \/ g.config.RISING_MODE = "off" THEN g
    ELSE IF will_rise_cause_game_over(g)
    THEN [g EXCEPT !.game_over = TRUE, !.state = GameOverState,
                   !.ev = @ \cup {"rise_overflow"}]
    ELSE LET g1 == [g EXCEPT
                 !.grid = Append([i \in 1..(GRID_HEIGHT - 1) |-> g.grid[i + 1]],
                                 generate_rising_line(holes)),
                 !.current_piece.y = IF g.current_piece.type # "None" THEN @ - 1 ELSE @,
                 !.powerup_blocks =
                     LET Keep(b) == b[2] > 0
                         kept == SelectSeq(g.powerup_blocks, Keep)
                     IN  [i \in 1..Len(kept) |-> <<kept[i][1], kept[i][2] - 1, kept[i][3]>>],
                 !.rising_animation_active = TRUE,
                 !.rising_animation_progress = 0,
                 !.rising_timer = 0,
                 !.rising_warning_active = FALSE,
                 !.ev = @ \cup {"rise"}]
         IN  [g1 EXCEPT !.rising_interval = calculate_rising_interval(g1)]

ManualRiseNoCooldown(g, holes) ==
    IF g.config.RISING_MODE # "manual" \/ ~g.config.RISING_LINES_ENABLED THEN g
    ELSE [trigger_rising_line(g, holes) EXCEPT !.rising_manual_cooldown = RISING_MANUAL_COOLDOWN]

manual_trigger_rise(g, holes) ==
    IF g.config.RISING_MODE # "manual" \/ ~g.config.RISING_LINES_ENABLED THEN g
    ELSE IF g.rising_manual_cooldown > 0 THEN g
    ELSE [trigger_rising_line(g, holes) EXCEPT !.rising_manual_cooldown = RISING_MANUAL_COOLDOWN]

RisingTimerInAnimation(g, delta_time, holes) ==
    IF ~g.config.RISING_LINES_ENABLED \/ g.config.RISING_MODE = "off" THEN g
    ELSE LET g1 == IF g.rising_manual_cooldown > 0
                   THEN [g EXCEPT !.rising_manual_cooldown = Max(0, @ - delta_time)]
                   ELSE g
         IN  IF g1.rising_animation_active
             THEN IF g1.rising_animation_progress + delta_time >= RISING_ANIMATION_DURATION
                  THEN [g1 EXCEPT !.rising_animation_active = FALSE,
                                  !.rising_animation_progress = 0,
                                  !.rising_timer = @ + delta_time]
                  ELSE [g1 EXCEPT !.rising_animation_progress = @ + delta_time,
                                  !.rising_timer = @ + delta_time]
             ELSE IF g1.config.RISING_MODE = "manual" THEN g1
             ELSE LET timer == g1.rising_timer + delta_time
                      time_until_rise == g1.rising_interval - timer
                      g2 == [g1 EXCEPT !.rising_timer = timer,
                                       !.rising_warning_active =
                                           (time_until_rise <= RISING_WARNING_TIME
                                            /\ time_until_rise > 0)]
                  IN  IF g2.rising_timer >= g2.rising_interval
                      THEN trigger_rising_line(g2, holes)
                      ELSE g2

update_rising_lines(g, delta_time, holes) ==
    IF ~g.config.RISING_LINES_ENABLED \/ g.config.RISING_MODE = "off" THEN g
    ELSE LET g1 == IF g.rising_manual_cooldown > 0
                   THEN [g EXCEPT !.rising_manual_cooldown = Max(0, @ - delta_time)]
                   ELSE g
         IN  IF g1.rising_animation_active
             THEN IF g1.rising_animation_progress + delta_time >= RISING_ANIMATION_DURATION
                  THEN [g1 EXCEPT !.rising_animation_active = FALSE,
                                  !.rising_animation_progress = 0]
                  ELSE [g1 EXCEPT !.rising_animation_progress = @ + delta_time]
             ELSE IF g1.config.RISING_MODE = "manual" THEN g1
             ELSE LET timer == g1.rising_timer + delta_time
                      time_until_rise == g1.rising_interval - timer
                      g2 == [g1 EXCEPT !.rising_timer = timer,
                                       !.rising_warning_active =
                                           (time_until_rise <= RISING_WARNING_TIME
                                            /\ time_until_rise > 0)]
                  IN  IF g2.rising_timer >= g2.rising_interval
                      THEN trigger_rising_line(g2, holes)
                      ELSE g2

reset_game(g, draw1, draw2) ==
    LET g1 == [g EXCEPT
            !.grid = EmptyGrid,
            !.score = 0,
            !.level = 1,
            !.lines_cleared = 0,
            !.game_over = FALSE,
            !.fall_speed = g.config.INITIAL_FALL_SPEED,
            !.clearing_lines = <<>>,
            !.clear_animation_time = 0,
            !.combo_count = 0,
            !.combo_multiplier = 10,
            !.combo_display_time = 0,
            !.powerup_blocks = <<>>,
            !.active_powerups = EmptyDict,
            !.rising_timer = 0,
            !.rising_interval = g.config.RISING_INITIAL_INTERVAL,
            !.rising_warning_active = FALSE,
            !.rising_animation_active = FALSE,
            !.rising_animation_progress = 0,
            !.rising_manual_cooldown = 0,
            !.hold_piece = NoPiece,
            !.can_hold = TRUE,
            !.state = PlayingState,
            !.rng_draws = 1,
            !.soft_drops = 0,
            !.ev = @ \cup {"reset"}]
    IN  spawn_new_piece([g1 EXCEPT !.next_piece = get_random_piece(g1, draw1)], draw2)

\* TetrisGame.__init__
NewGame(config, draw1, draw2) ==
    LET g0 == [config |-> config,
               grid |-> EmptyGrid,
               current_piece |-> NoPiece,
               next_piece |-> NoPiece,
               hold_piece |-> NoPiece,
               can_hold |-> TRUE,
               score |-> 0,
               level |-> 1,
               lines_cleared |-> 0,
               game_over |-> FALSE,
               combo_count |-> 0,
               combo_multiplier |-> 10,
               combo_display_time |-> 0,
               powerup_blocks |-> <<>>,
               active_powerups |-> EmptyDict,
               fall_time |-> 0,
               fall_speed |-> config.INITIAL_FALL_SPEED,
               clearing_lines |-> <<>>,
               clear_animation_time |-> 0,
               rising_timer |-> 0,
               rising_interval |-> config.RISING_INITIAL_INTERVAL,
               rising_warning_active |-> FALSE,
               rising_animation_active |-> FALSE,
               rising_animation_progress |-> 0,
               rising_manual_cooldown |-> 0,
               state |-> IF config.DEMO_AUTO_START THEN DemoState ELSE PlayingState,
               rng_draws |-> 1,
               soft_drops |-> 0,
               holds |-> 0,
               removed |-> <<>>,
               ev |-> {}]
    IN  spawn_new_piece([g0 EXCEPT !.next_piece = get_random_piece(g0, draw1)], draw2)

(***************************************************************************)
(* The states' update and handle_input (src/src/game_states.py)            *)
(***************************************************************************)
effective_fall_speed(g) ==
    IF is_active(g, "time_dilator") THEN g.fall_speed * 2 ELSE g.fall_speed

\* PlayingState.update without its lock: a piece that cannot fall stays
PlayingNeverLocks(g, delta_time, draw) ==
    LET g1 == [g EXCEPT !.fall_time = @ + delta_time]
    IN  IF g1.fall_time >= effective_fall_speed(g1)
        THEN LET g2 == [g1 EXCEPT !.fall_time = 0]
             IN  IF move_ok(g2, 0, 1) THEN move_piece(g2, 0, 1) ELSE g2
        ELSE g1

PlayingState_update(g, delta_time, draw) ==
    LET g1 == [g EXCEPT !.fall_time = @ + delta_time]
    IN  IF g1.fall_time >= effective_fall_speed(g1)
        THEN LET g2 == [g1 EXCEPT !.fall_time = 0]
             IN  IF move_ok(g2, 0, 1) THEN move_piece(g2, 0, 1) ELSE lock_piece(g2, draw)
        ELSE g1

LineClearingAlwaysPlaying(g, delta_time, draw) ==
    LET g1 == [g EXCEPT !.clear_animation_time = @ + delta_time]
    IN  IF g1.clear_animation_time >= CLEAR_ANIMATION_DURATION
        THEN [finish_clearing_animation(g1, draw) EXCEPT !.state = PlayingState]
        ELSE g1

LineClearingState_update(g, delta_time, draw) ==
    LET g1 == [g EXCEPT !.clear_animation_time = @ + delta_time]
        previous_state == g.state.previous_state
    IN  IF g1.clear_animation_time >= CLEAR_ANIMATION_DURATION
        THEN [finish_clearing_animation(g1, draw) EXCEPT !.state =
                 IF previous_state.name = "None" THEN PlayingState
                 ELSE IF previous_state.name = "Demo" THEN DemoState
                 ELSE IF previous_state.name = "Playing" THEN PlayingState
                 ELSE previous_state]
        ELSE g1

GameOverState_update(g, delta_time, draw1, draw2) ==
    IF g.config.DEMO_AFTER_GAME_OVER
    THEN LET g1 == [g EXCEPT !.state.game_over_time = @ + delta_time]
         IN  IF g1.state.game_over_time >= DEMO_GAME_OVER_DELAY
             THEN [reset_game(g1, draw1, draw2) EXCEPT !.state = DemoState]
             ELSE g1
    ELSE g

(***************************************************************************)
(* DemoAI, the planner (src/src/demo_ai.py).  The Python objects the       *)
(* planner reads and writes are kept in a heap, so that a copy and an alias *)
(* are different things: pieces[CURRENT], pieces[NEXT] and pieces[HOLD] are *)
(* the session's piece objects, rows[1..GRID_HEIGHT] the row lists of the   *)
(* live grid, grid the live list of row references; every object the        *)
(* planner creates is appended behind them.                                 *)
(***************************************************************************)
CURRENT == 1
NEXT == 2
HOLD == 3

DEMO_SLIDE_BONUS == 10

\* float("-inf")
NEG_INF == -1000000

\* float addition, where -inf absorbs
Add(a, b) == IF a = NEG_INF THEN NEG_INF ELSE a + b

Heap(g) ==
    [pieces |-> <<g.current_piece, g.next_piece, g.hold_piece>>,
     rows |-> g.grid,
     grid |-> [i \in 1..GRID_HEIGHT |-> i],
     can_hold |-> g.can_hold]

\* the session as the heap leaves it
Store(g, h) ==
    [g EXCEPT !.current_piece = h.pieces[CURRENT],
              !.next_piece = h.pieces[NEXT],
              !.hold_piece = h.pieces[HOLD],
              !.grid = [i \in 1..GRID_HEIGHT |-> h.rows[h.grid[i]]],
              !.can_hold = h.can_hold]

\* the objects of a finished call are unreachable: only the session's stay
Collect(h) ==
    [h EXCEPT !.pieces = SubSeq(@, 1, HOLD), !.rows = SubSeq(@, 1, GRID_HEIGHT)]

\* Tetromino.copy: a new object with its own shape lists
copy(piece) ==
    [Tetromino(piece.type) EXCEPT !.shape = piece.shape, !.x = piece.x, !.y = piece.y]

RECURSIVE Rotated(_, _)
Rotated(shape, n) == IF n = 0 THEN shape ELSE Rotated(rotate_clockwise(shape), n - 1)

_is_valid_position_in_grid(piece, grid, offset_x, offset_y) ==
    \A b \in get_blocks(piece) :
        LET new_x == b[1] + offset_x
            new_y == b[2] + offset_y
        IN  /\ ~(new_x < 0 \/ new_x >= GRID_WIDTH \/ new_y >= GRID_HEIGHT)
            /\ ~(new_y >= 0 /\ grid[new_y + 1][new_x + 1] # None)

\* while self._is_valid_position_in_grid(test_piece, grid, 0, 1): test_piece.y += 1
RECURSIVE Landed(_, _)
Landed(piece, grid) ==
    IF _is_valid_position_in_grid(piece, grid, 0, 1)
    THEN Landed([piece EXCEPT !.y = @ + 1], grid)
    ELSE piece

RECURSIVE sum(_)
sum(seq) == IF seq = <<>> THEN 0 ELSE Head(seq) + sum(Tail(seq))

abs(n) == IF n < 0 THEN -n ELSE n

_get_column_heights(grid) ==
    [x \in 1..GRID_WIDTH |->
        LET filled == {y \in 1..GRID_HEIGHT : grid[y][x] # None}
        IN  IF filled = {} THEN 0
            ELSE GRID_HEIGHT - ((CHOOSE y \in filled : \A z \in filled : y <= z) - 1)]

_count_holes(grid) ==
    Cardinality({c \in (1..GRID_WIDTH) \X (1..GRID_HEIGHT) :
                    /\ grid[c[2]][c[1]] = None
                    /\ \E y \in 1..(c[2] - 1) : grid[y][c[1]] # None})

_calculate_bumpiness(heights) ==
    sum([i \in 1..(Len(heights) - 1) |-> abs(heights[i] - heights[i + 1])])

line_clear_scores == [n \in 1..4 |-> CASE n = 1 -> 100 [] n = 2 -> 300 [] n = 3 -> 500 [] n = 4 -> 800]

\* the sum of _evaluate_grid_state, heights being _get_column_heights(grid)
GridScore(grid, heights) ==
    (IF Cardinality({y \in 1..GRID_HEIGHT : \A col \in 1..GRID_WIDTH : grid[y][col] # None})
            \in DOMAIN line_clear_scores
     THEN line_clear_scores[Cardinality({y \in 1..GRID_HEIGHT :
                                            \A col \in 1..GRID_WIDTH : grid[y][col] # None})]
     ELSE 0)
    - sum(heights) * 1
    - _count_holes(grid) * 500
    - _calculate_bumpiness(heights) * 50
    + Cardinality({y \in 1..GRID_HEIGHT :
          Cardinality({col \in 1..GRID_WIDTH : grid[y][col] # None}) >= GRID_WIDTH - 1}) * 50

_evaluate_grid_state(grid) ==
    CHOOSE score \in {GridScore(grid, heights) :
                         heights \in {_get_column_heights(grid)}} : TRUE

\* simulated_grid = [row[:] for row in self.game.grid] and the writes of the
\* blocks of test_piece into it: the copies are new rows behind the others
Written(h, blocks, color) ==
    [h EXCEPT !.rows =
        @ \o [i \in 1..GRID_HEIGHT |->
                 [x \in 1..GRID_WIDTH |->
                     IF <<x - 1, i - 1>> \in blocks THEN color ELSE h.rows[h.grid[i]][x]]]]

\* simulated_grid = self.game.grid and the same writes: the rows written are
\* the rows of the live grid
WrittenOnLiveGrid(h, blocks, color) ==
    [h EXCEPT !.rows =
        [r \in 1..Len(h.rows) |->
            [x \in 1..GRID_WIDTH |->
                IF \E i \in 1..GRID_HEIGHT : h.grid[i] = r /\ <<x - 1, i - 1>> \in blocks
                THEN color ELSE h.rows[r][x]]]
        \o [i \in 1..GRID_HEIGHT |-> h.rows[h.grid[i]]]]

\* the grid evaluate_placement returns, with its score; w is the heap after
\* the writes, simulated_grid the row references of the simulated grid
Scored(w, simulated_grid) ==
    [score |-> _evaluate_grid_state([i \in 1..GRID_HEIGHT |-> w.rows[simulated_grid[i]]]),
     grid |-> [i \in 1..GRID_HEIGHT |-> w.rows[simulated_grid[i]]],
     heap |-> Collect(w)]

\* the head of evaluate_placement: the copy of the piece, rotated, put at x
\* and dropped on the live grid
Dropped(h, piece, x, rotation) ==
    [h EXCEPT !.pieces =
        Append(@, Landed([copy(h.pieces[piece]) EXCEPT
                              !.shape = Rotated(@, rotation % 4), !.x = x, !.y = 0],
                         [i \in 1..GRID_HEIGHT |-> h.rows[h.grid[i]]]))]

Rests(h) ==
    _is_valid_position_in_grid(h.pieces[Len(h.pieces)],
                               [i \in 1..GRID_HEIGHT |-> h.rows[h.grid[i]]], 0, 0)

\* the tail of evaluate_placement: d is the heap with test_piece, its newest
\* piece, where it came to rest
Simulate(d) ==
    IF ~Rests(d) THEN [score |-> NEG_INF, grid |-> <<>>, heap |-> Collect(d)]
    ELSE CHOOSE result \in
             {Scored(w, [i \in 1..GRID_HEIGHT |-> Len(d.rows) + i]) :
                 w \in {Written(d, get_blocks(d.pieces[Len(d.pieces)]),
                                d.pieces[Len(d.pieces)].color)}} : TRUE

SimulateOnLiveGrid(d) ==
    IF ~Rests(d) THEN [score |-> NEG_INF, grid |-> <<>>, heap |-> Collect(d)]
    ELSE CHOOSE result \in
             {Scored(w, d.grid) :
                 w \in {WrittenOnLiveGrid(d, get_blocks(d.pieces[Len(d.pieces)]),
                                          d.pieces[Len(d.pieces)].color)}} : TRUE

EvaluateOnLiveGrid(h, piece, x, rotation) ==
    CHOOSE result \in
        {SimulateOnLiveGrid(d) : d \in {Dropped(h, piece, x, rotation)}} : TRUE

\* DemoAI.evaluate_placement; piece is a reference into h
evaluate_placement(h, piece, x, rotation) ==
    CHOOSE result \in {Simulate(d) : d \in {Dropped(h, piece, x, rotation)}} : TRUE

\* the placements _evaluate_piece_placements tries, in its order: for each
\* rotation and each x the drop at x, then the slides to x - 1, x + 1, x - 2
\* and x + 2 that stay on the board
slide_offsets == <<-1, 1, -2, 2>>

PlacementsAt(x, rotation) ==
    LET OnBoard(c) == 0 <= c.x /\ c.x < GRID_WIDTH
    IN  <<[x |-> x, rotation |-> rotation, slide |-> FALSE]>>
        \o SelectSeq([i \in 1..Len(slide_offsets) |->
                         [x |-> x + slide_offsets[i], rotation |-> rotation, slide |-> TRUE]],
                     OnBoard)

RECURSIVE PlacementsFrom(_)
PlacementsFrom(k) ==
    IF k >= 4 * GRID_WIDTH THEN <<>>
    ELSE PlacementsAt(k % GRID_WIDTH, k \div GRID_WIDTH) \o PlacementsFrom(k + 1)

Placements == PlacementsFrom(0)

\* one evaluation of the loop: r is what evaluate_placement returned for c
Better(best, c, r) ==
    IF (IF c.slide THEN Add(r.score, DEMO_SLIDE_BONUS) ELSE r.score) > best.score
    THEN [score |-> IF c.slide THEN Add(r.score, DEMO_SLIDE_BONUS) ELSE r.score,
          x |-> c.x, rotation |-> c.rotation, heap |-> r.heap]
    ELSE [best EXCEPT !.heap = r.heap]

\* the head of the rotation loop: test_piece = piece.copy(), rotated
CopyRotated(h, piece, rotation) ==
    Collect([h EXCEPT !.pieces =
                Append(@, [copy(h.pieces[piece]) EXCEPT !.shape = Rotated(@, rotation)])])

\* the loop of _evaluate_piece_placements from its i-th placement on, best
\* being the best so far (each round is evaluated before the next begins)
RECURSIVE TryPlacements(_, _, _)
TryPlacements(piece, i, best) ==
    IF i > Len(Placements) THEN best
    ELSE CHOOSE last \in
             {TryPlacements(piece, i + 1, better) :
                 better \in
                     {Better(best, Placements[i], r) :
                         r \in {evaluate_placement(
                                   IF Placements[i].x = 0 /\ ~Placements[i].slide
                                   THEN CopyRotated(best.heap, piece, Placements[i].rotation)
                                   ELSE best.heap,
                                   piece, Placements[i].x, Placements[i].rotation)}}} : TRUE

\* DemoAI._evaluate_piece_placements; piece is a reference into h
_evaluate_piece_placements(h, piece) ==
    IF h.pieces[piece] = NoPiece
    THEN [score |-> NEG_INF, x |-> GRID_WIDTH \div 2, rotation |-> 0, heap |-> h]
    ELSE TryPlacements(piece, 1,
             [score |-> NEG_INF, x |-> h.pieces[piece].x, rotation |-> 0, heap |-> h])

\* the end of find_best_move: cur is the result for the current piece, alt
\* the result for the piece a hold would bring into play
WithHold(cur, alt) ==
    IF Add(alt.score, 20) > cur.score
    THEN [x |-> alt.x, rotation |-> alt.rotation, use_hold |-> TRUE, heap |-> alt.heap]
    ELSE [x |-> cur.x, rotation |-> cur.rotation, use_hold |-> FALSE, heap |-> alt.heap]

AfterCurrent(cur) ==
    IF cur.heap.can_hold /\ cur.heap.pieces[HOLD] # NoPiece
    THEN CHOOSE best \in {WithHold(cur, alt) :
                              alt \in {_evaluate_piece_placements(cur.heap, HOLD)}} : TRUE
    ELSE IF cur.heap.can_hold /\ cur.heap.pieces[NEXT] # NoPiece
    THEN CHOOSE best \in {WithHold(cur, alt) :
                              alt \in {_evaluate_piece_placements(cur.heap, NEXT)}} : TRUE
    ELSE [x |-> cur.x, rotation |-> cur.rotation, use_hold |-> FALSE, heap |-> cur.heap]

\* DemoAI.find_best_move
find_best_move(h) ==
    IF h.pieces[CURRENT] = NoPiece
    THEN [x |-> GRID_WIDTH \div 2, rotation |-> 0, use_hold |-> FALSE, heap |-> h]
    ELSE CHOOSE best \in {AfterCurrent(cur) :
                              cur \in {_evaluate_piece_placements(h, CURRENT)}} : TRUE

\* DemoAI.make_next_move performs at most one operation on the game per call;
\* which one is the planner's choice, taken here as the input ai_move
\* ("none": move_timer below the delay, or a planning / waiting phase).
AiMoves == {"none", "hold", "rotate", "left", "right", "down"}

make_next_move(g, ai_move, draw) ==
    CASE ai_move = "hold" -> hold_current_piece(g, draw)
      [] ai_move = "rotate" -> rotate_piece(g)
      [] ai_move = "left" -> move_piece(g, -1, 0)
      [] ai_move = "right" -> move_piece(g, 1, 0)
      [] ai_move = "down" -> IF move_ok(g, 0, 1)
                             THEN [move_piece(g, 0, 1) EXCEPT !.score = @ + SOFT_DROP_BONUS,
                                                              !.soft_drops = @ + 1]
                             ELSE g
      [] OTHER -> g

\* the second half of DemoState.update: the auto-fall, on the game the AI's
\* move has left; the lock draws the next piece after any draw of the move
DemoState_auto_fall(g, drawn, delta_time, draw1, draw2) ==
    LET g2 == [g EXCEPT !.fall_time = @ + delta_time]
    IN  IF g2.fall_time >= effective_fall_speed(g2)
        THEN LET g3 == [g2 EXCEPT !.fall_time = 0]
             IN  IF move_ok(g3, 0, 1) THEN move_piece(g3, 0, 1)
                 ELSE lock_piece(g3, IF g.rng_draws > drawn THEN draw2 ELSE draw1)
        ELSE g2

DemoState_update(g, delta_time, ai_move, draw1, draw2) ==
    DemoState_auto_fall(make_next_move(g, ai_move, draw1), g.rng_draws,
                        delta_time, draw1, draw2)

state_update(g, delta_time, ai_move, draw1, draw2) ==
    CASE g.state.name = "Playing" -> PlayingState_update(g, delta_time, draw1)
      [] g.state.name = "Demo" -> DemoState_update(g, delta_time, ai_move, draw1, draw2)
      [] g.state.name = "ConfigMenu" -> g
      [] g.state.name = "Paused" -> g
      [] g.state.name = "LineClearing" -> LineClearingState_update(g, delta_time, draw1)
      [] g.state.name = "GameOver" -> GameOverState_update(g, delta_time, draw1, draw2)

UpdateRisesAlways(g, delta_time, ai_move, draw1, draw2, holes) ==
    IF g.game_over THEN g
    ELSE LET g0 == [g EXCEPT !.ev = @ \cup {"tick"}]
             g1 == IF g0.combo_display_time > 0
                   THEN [g0 EXCEPT !.combo_display_time = @ - delta_time]
                   ELSE g0
             g2 == powerup_update(g1, delta_time)
             g3 == update_rising_lines(g2, delta_time, holes)
         IN  state_update(g3, delta_time, ai_move, draw1, draw2)

UpdateFallsFirst(g, delta_time, ai_move, draw1, draw2, holes) ==
    IF g.game_over THEN g
    ELSE LET g0 == [g EXCEPT !.ev = @ \cup {"tick"}]
             g1 == IF g0.combo_display_time > 0
                   THEN [g0 EXCEPT !.combo_display_time = @ - delta_time]
                   ELSE g0
             g2 == IF g1.state.name \notin {"LineClearing", "Paused"}
                   THEN update_rising_lines(g1, delta_time, holes)
                   ELSE g1
         IN  powerup_update(state_update(g2, delta_time, ai_move, draw1, draw2), delta_time)

\* TetrisGame.update
update(g, delta_time, ai_move, draw1, draw2, holes) ==
    IF g.game_over THEN g
    ELSE LET g0 == [g EXCEPT !.ev = @ \cup {"tick"}]
             g1 == IF g0.combo_display_time > 0
                   THEN [g0 EXCEPT !.combo_display_time = @ - delta_time]
                   ELSE g0
             g2 == powerup_update(g1, delta_time)
             g3 == IF g2.state.name \notin {"LineClearing", "Paused"}
                   THEN update_rising_lines(g2, delta_time, holes)
                   ELSE g2
         IN  state_update(g3, delta_time, ai_move, draw1, draw2)

(***************************************************************************)
(* The demo AI as DemoState drives it (src/src/demo_ai.py): its planner is *)
(* find_best_move above, its phase machine the handlers below.  The state  *)
(* of a demo that has an AI carries it, with the timer of its moves.       *)
(***************************************************************************)
\* id(self.game.current_piece): the object that is the current piece, named
\* by the draw that made it current and the holds since
\* by the draw that made it current and the holds since; NoId is the None of
\* current_piece_id
NoId == <<0, 0>>

id(g) == IF g.current_piece = NoPiece THEN NoId ELSE <<g.rng_draws, g.holds>>

\* DemoAI.__init__; the None of the two targets is -1
DemoAI ==
    [target_x |-> -1,
     target_rotation |-> -1,
     target_use_hold |-> FALSE,
     move_phase |-> "planning",
     rotation_count |-> 0,
     movement_delay |-> 0,
     current_piece_id |-> NoId]

\* DemoState with its fields: self.ai once update has made it, and move_timer
DemoStateOf(ai, move_timer) == [name |-> "Demo", ai |-> ai, move_timer |-> move_timer]

\* self.ai, made by the first update of a DemoState
ai_of(state) == IF "ai" \in DOMAIN state THEN state.ai ELSE DemoAI

move_timer_of(state) == IF "move_timer" \in DOMAIN state THEN state.move_timer ELSE 0

_handle_planning_phase(g, ai) ==
    CHOOSE r \in
        {[game |-> Store(g, best.heap),
          ai |-> [ai EXCEPT !.target_x = best.x,
                            !.target_rotation = best.rotation,
                            !.target_use_hold = best.use_hold,
                            !.rotation_count = 0,
                            !.move_phase = IF best.use_hold THEN "holding" ELSE "rotating",
                            !.movement_delay = IF best.use_hold THEN DEMO_MOVE_DELAY
                                               ELSE DEMO_ROTATION_DELAY]] :
            best \in {find_best_move(Heap(g))}} : TRUE

_handle_holding_phase(g, ai, draw) ==
    CHOOSE r \in
        {[game |-> t,
          ai |-> [ai EXCEPT !.move_phase = "planning",
                            !.current_piece_id = id(t),
                            !.movement_delay = DEMO_MOVE_DELAY]] :
            t \in {hold_current_piece(g, draw)}} : TRUE

_handle_rotating_phase(g, ai) ==
    IF ai.rotation_count < ai.target_rotation
    THEN [game |-> rotate_piece(g),
          ai |-> [ai EXCEPT !.rotation_count = @ + 1,
                            !.movement_delay = DEMO_ROTATION_DELAY]]
    ELSE [game |-> g,
          ai |-> [ai EXCEPT !.move_phase = "moving", !.movement_delay = DEMO_MOVE_DELAY_H]]

_handle_moving_phase(g, ai) ==
    IF g.current_piece.x < ai.target_x
    THEN [game |-> move_piece(g, 1, 0), ai |-> [ai EXCEPT !.movement_delay = DEMO_MOVE_DELAY_H]]
    ELSE IF g.current_piece.x > ai.target_x
    THEN [game |-> move_piece(g, -1, 0), ai |-> [ai EXCEPT !.movement_delay = DEMO_MOVE_DELAY_H]]
    ELSE [game |-> g,
          ai |-> [ai EXCEPT !.move_phase = "dropping", !.movement_delay = DEMO_DROP_DELAY]]

_handle_dropping_phase(g, ai) ==
    IF move_ok(g, 0, 1)
    THEN [game |-> [move_piece(g, 0, 1) EXCEPT !.score = @ + SOFT_DROP_BONUS,
                                               !.soft_drops = @ + 1],
          ai |-> [ai EXCEPT !.movement_delay = DEMO_FAST_DROP_DELAY]]
    ELSE [game |-> g,
          ai |-> [ai EXCEPT !.move_phase = "waiting", !.movement_delay = DEMO_MOVE_DELAY]]

_handle_waiting_phase(g, ai) ==
    [game |-> g, ai |-> [ai EXCEPT !.movement_delay = DEMO_MOVE_DELAY]]

\* the object whose id the AI remembers was freed before the current piece
\* was made: the current piece was made when the piece before it became
\* current, so the two ids can be the same number
IdReusable(g, ai) ==
    /\ ai.current_piece_id # NoId
    /\ g.holds = 0
    /\ ai.current_piece_id[1] <= g.rng_draws - 2

\* DemoAI.make_next_move, the AI being ai; same_id: id() gives the new current
\* piece the number it gave the piece the AI remembers
DemoAI_make_next_move(g, ai, same_id, draw) ==
    IF g.current_piece = NoPiece
    THEN [game |-> g, ai |-> [ai EXCEPT !.move_phase = "waiting"]]
    ELSE LET piece_id == IF IdReusable(g, ai) /\ same_id THEN ai.current_piece_id ELSE id(g)
             a == IF piece_id # ai.current_piece_id
                  THEN [ai EXCEPT !.current_piece_id = piece_id, !.move_phase = "planning"]
                  ELSE ai
         IN  CASE a.move_phase = "planning" -> _handle_planning_phase(g, a)
               [] a.move_phase = "holding" -> _handle_holding_phase(g, a, draw)
               [] a.move_phase = "rotating" -> _handle_rotating_phase(g, a)
               [] a.move_phase = "moving" -> _handle_moving_phase(g, a)
               [] a.move_phase = "dropping" -> _handle_dropping_phase(g, a)
               [] a.move_phase = "waiting" -> _handle_waiting_phase(g, a)

\* DemoState.update with the AI of the state: the AI's move when its delay
\* has passed, then the auto-fall
DemoState_update_with_ai(g, delta_time, same_id, draw1, draw2) ==
    CHOOSE t \in
        {DemoState_auto_fall(moved, g.rng_draws, delta_time, draw1, draw2) :
            moved \in
                {IF r.game.state.name = "Demo"
                 THEN [r.game EXCEPT !.state = DemoStateOf(r.ai, r.move_timer)]
                 ELSE r.game :
                    r \in
                        {IF timer >= ai.movement_delay
                         THEN [move_timer |-> 0] @@ DemoAI_make_next_move(g, ai, same_id, draw1)
                         ELSE [move_timer |-> timer, game |-> g, ai |-> ai] :
                            timer \in {move_timer_of(g.state) + delta_time},
                            ai \in {ai_of(g.state)}}}} : TRUE

\* the state's update of a session whose demo has its AI
state_update_with_ai(g, delta_time, same_id, draw1, draw2) ==
    IF g.state.name = "Demo"
    THEN DemoState_update_with_ai(g, delta_time, same_id, draw1, draw2)
    ELSE state_update(g, delta_time, "none", draw1, draw2)

\* TetrisGame.update of a session whose demo has its AI; each step of the
\* method works on the game the step before has left
update_with_ai(g, delta_time, same_id, draw1, draw2, holes) ==
    IF g.game_over THEN g
    ELSE CHOOSE t \in
             {state_update_with_ai(g3, delta_time, same_id, draw1, draw2) :
                 g3 \in {IF g2.state.name \notin {"LineClearing", "Paused"}
                         THEN update_rising_lines(g2, delta_time, holes)
                         ELSE g2 :
                     g2 \in {powerup_update(g1, delta_time) :
                         g1 \in {IF g0.combo_display_time > 0
                                 THEN [g0 EXCEPT !.combo_display_time = @ - delta_time]
                                 ELSE g0 :
                             g0 \in {[g EXCEPT !.ev = @ \cup {"tick"}]}}}}} : TRUE

PlayingState_handle_input(g, key, draw, draw2) ==
    CASE key = "LEFT" -> move_piece(g, -1, 0)
      [] key = "RIGHT" -> move_piece(g, 1, 0)
      [] key = "DOWN" -> IF move_ok(g, 0, 1)
                         THEN [move_piece(g, 0, 1) EXCEPT !.score = @ + SOFT_DROP_BONUS,
                                                          !.soft_drops = @ + 1]
                         ELSE g
      [] key = "UP" -> rotate_piece(g)
      [] key = "SPACE" -> hard_drop(g, draw)
      [] key = "c" -> hold_current_piece(g, draw)
      [] key = "p" -> [g EXCEPT !.state = PausedState]
      [] key = "d" -> [reset_game(g, draw, draw2) EXCEPT !.state = DemoState]
      [] key = "m" -> [g EXCEPT !.state = Opened(ConfigMenuState(g.config), g),
                                !.ev = @ \cup {"menu"}]
      [] OTHER -> g

_change_option(g, increase) ==
    LET option == options[g.state.selected_option + 1]
        current_idx == IndexOf(difficulty_levels, g.state.current_difficulty) - 1
    IN  CASE option = "difficulty" ->
                 [g EXCEPT !.state.current_difficulty =
                      difficulty_levels[((IF increase THEN current_idx + 1 ELSE current_idx - 1)
                                             % Len(difficulty_levels)) + 1]]
          [] option = "charged_blocks" ->
                 [g EXCEPT !.config.CHARGED_BLOCKS_ENABLED = ~@]
          [] option = "hold_blocks" ->
                 [g EXCEPT !.config.HOLD_ENABLED = ~@]
          [] OTHER -> g

ApplyKeepsSpeed(g) ==
    LET settings == DIFFICULTY_SETTINGS[g.state.current_difficulty]
    IN  [g EXCEPT !.config.INITIAL_FALL_SPEED = settings.initial_speed,
                  !.config.LEVEL_SPEED_DECREASE = settings.speed_decrease,
                  !.config.MIN_FALL_SPEED = settings.min_speed,
                  !.ev = @ \cup {"apply"}]

_apply_settings(g) ==
    LET settings == DIFFICULTY_SETTINGS[g.state.current_difficulty]
        g1 == [g EXCEPT !.config.INITIAL_FALL_SPEED = settings.initial_speed,
                        !.config.LEVEL_SPEED_DECREASE = settings.speed_decrease,
                        !.config.MIN_FALL_SPEED = settings.min_speed]
        new_speed == g1.config.INITIAL_FALL_SPEED
                         - (g1.level - 1) * g1.config.LEVEL_SPEED_DECREASE
    IN  [g1 EXCEPT !.fall_speed = Max(new_speed, g1.config.MIN_FALL_SPEED),
                   !.ev = @ \cup {"apply"}]

ConfigMenuState_handle_input(g, key) ==
    CASE key = "UP" ->
             [g EXCEPT !.state.selected_option = (@ - 1) % Len(options)]
      [] key = "DOWN" ->
             [g EXCEPT !.state.selected_option = (@ + 1) % Len(options)]
      [] key \in {"LEFT", "RIGHT"} -> _change_option(g, key = "RIGHT")
      [] key \in {"RETURN", "SPACE"} ->
             IF options[g.state.selected_option + 1] = "back"
             THEN [_apply_settings(g) EXCEPT !.state = PlayingState]
             ELSE g
      [] key = "ESCAPE" -> [g EXCEPT !.state = PlayingState, !.ev = @ \cup {"cancel"}]
      [] OTHER -> g

PausedState_handle_input(g, key) ==
    IF key = "p" THEN [g EXCEPT !.state = PlayingState] ELSE g

GameOverState_handle_input(g, key, draw1, draw2) ==
    IF key = "r" THEN [reset_game(g, draw1, draw2) EXCEPT !.state = PlayingState] ELSE g

DemoState_handle_input(g, key, draw1, draw2) ==
    [reset_game(g, draw1, draw2) EXCEPT !.state = PlayingState]

\* TetrisGame.handle_input
handle_input(g, key, draw1, draw2) ==
    CASE g.state.name = "Playing" -> PlayingState_handle_input(g, key, draw1, draw2)
      [] g.state.name = "Demo" -> DemoState_handle_input(g, key, draw1, draw2)
      [] g.state.name = "ConfigMenu" -> ConfigMenuState_handle_input(g, key)
      [] g.state.name = "Paused" -> PausedState_handle_input(g, key)
      [] g.state.name = "LineClearing" -> g
      [] g.state.name = "GameOver" -> GameOverState_handle_input(g, key, draw1, draw2)

(***************************************************************************)
(* The session as a state machine: one action per command and one for the  *)
(* tick.  Random draws and the tick's delta are the actions' inputs.       *)
(***************************************************************************)
PlainDraws(types) ==
    {[type |-> t, roll |-> FALSE, cell |-> <<0, 0>>, kind |-> "none"] : t \in types}

TaggedDraws(types, kinds) ==
    UNION {{[type |-> t, roll |-> TRUE, cell |-> c, kind |-> k] :
               c \in LocalBlocks(SHAPES[t]), k \in kinds} : t \in types}

Deltas == 1..MaxDelta

Config(rising_enabled, rising_mode, charged, hold) ==
    [CHARGED_BLOCKS_ENABLED |-> charged,
     HOLD_ENABLED |-> hold,
     RISING_LINES_ENABLED |-> rising_enabled,
     RISING_MODE |-> rising_mode,
     DEMO_AUTO_START |-> FALSE,
     DEMO_AFTER_GAME_OVER |-> FALSE,
     INITIAL_FALL_SPEED |-> INITIAL_FALL_SPEED,
     LEVEL_SPEED_DECREASE |-> LEVEL_SPEED_DECREASE,
     MIN_FALL_SPEED |-> MIN_FALL_SPEED,
     RISING_INITIAL_INTERVAL |-> RISING_INITIAL_INTERVAL,
     RISING_INTERVAL_DECREASE |-> RISING_INTERVAL_DECREASE,
     RISING_MIN_INTERVAL |-> RISING_MIN_INTERVAL,
     RISING_SURVIVAL_INTERVAL |-> RISING_SURVIVAL_INTERVAL]

\* a handler starts with an empty call record
Begin(g) == [g EXCEPT !.ev = {}, !.removed = <<>>]

\* Every action reads only the draws its handler consumes: how many pieces a
\* handler draws and whether it generates a rising line do not depend on the
\* values drawn, so they are read off a run of the handler on the first draw.
AnyOf(S) == CHOOSE x \in S : TRUE

DrawsUsed(g, t) ==
    IF "reset" \in t.ev THEN 2
    ELSE t.rng_draws - g.rng_draws

HolesUsed(t) == "rise" \in t.ev

\* a game is followed until it has drawn P pieces, and then to its restart
Budget(P) == game.rng_draws < P \/ game.state.name = "GameOver"

Move(P, key) ==
    /\ Budget(P)
    /\ key = "DOWN" => game.soft_drops < MaxSoftDrops
    /\ game' = handle_input(Begin(game), key, NoPiece, NoPiece)

Rotate(P) ==
    /\ Budget(P)
    /\ game' = handle_input(Begin(game), "UP", NoPiece, NoPiece)

HardDrop(P, D) ==
    /\ Budget(P)
    /\ \E draw \in D : game' = handle_input(Begin(game), "SPACE", draw, draw)

Hold(P, D) ==
    /\ Budget(P)
    /\ LET probe == handle_input(Begin(game), "c", AnyOf(D), AnyOf(D))
       IN  IF DrawsUsed(game, probe) = 0 THEN game' = probe
           ELSE \E draw \in D : game' = handle_input(Begin(game), "c", draw, draw)

TogglePause(P) ==
    /\ Budget(P)
    /\ game' = handle_input(Begin(game), "p", NoPiece, NoPiece)

Restart(P, D) ==
    /\ Budget(P)
    /\ LET probe == handle_input(Begin(game), "r", AnyOf(D), AnyOf(D))
       IN  IF DrawsUsed(game, probe) = 0 THEN game' = probe
           ELSE \E draw1 \in D, draw2 \in D :
                   game' = handle_input(Begin(game), "r", draw1, draw2)

ManualRise(P, H) ==
    /\ Budget(P)
    /\ game.state.name = "Playing"
    /\ LET probe == manual_trigger_rise(Begin(game), AnyOf(H))
       IN  IF ~HolesUsed(probe) THEN game' = probe
           ELSE \E holes \in H : game' = manual_trigger_rise(Begin(game), holes)

Tick(P, T, D, H) ==
    /\ Budget(P)
    /\ \E delta_time \in T,
          ai_move \in IF game.state.name = "Demo"
                      THEN {m \in AiMoves : m = "down" => game.soft_drops < MaxSoftDrops}
                      ELSE {"none"} :
          LET probe == update(Begin(game), delta_time, ai_move, AnyOf(D), AnyOf(D), AnyOf(H))
              D1 == IF DrawsUsed(game, probe) >= 1 THEN D ELSE {AnyOf(D)}
              D2 == IF DrawsUsed(game, probe) >= 2 THEN D ELSE {AnyOf(D)}
              H1 == IF HolesUsed(probe) THEN H ELSE {AnyOf(H)}
          IN  IF DrawsUsed(game, probe) = 0 /\ ~HolesUsed(probe) THEN game' = probe
              ELSE \E draw1 \in D1, draw2 \in D2, holes \in H1 :
                      game' = update(Begin(game), delta_time, ai_move, draw1, draw2, holes)

SessionInit(C, D) ==
    \E config \in C, draw1 \in D, draw2 \in D : game = NewGame(config, draw1, draw2)

SessionNext(P, D, H) ==
    \/ \E key \in {"LEFT", "RIGHT", "DOWN"} : Move(P, key)
    \/ Rotate(P)
    \/ HardDrop(P, D)
    \/ Hold(P, D)
    \/ TogglePause(P)
    \/ Restart(P, D)
    \/ ManualRise(P, H)
    \/ Tick(P, Deltas, D, H)

\* the demo switches of GameConfig (src/src/config.py)
DemoConfig(config, auto_start, after_game_over) ==
    [config EXCEPT !.DEMO_AUTO_START = auto_start,
                   !.DEMO_AFTER_GAME_OVER = after_game_over]

\* the D key of PlayingState.handle_input
StartDemo(P, D) ==
    /\ Budget(P)
    /\ game.state.name = "Playing"
    /\ \E draw1 \in D, draw2 \in D : game' = handle_input(Begin(game), "d", draw1, draw2)

\* any key of DemoState.handle_input
ExitDemo(P, D) ==
    /\ Budget(P)
    /\ game.state.name = "Demo"
    /\ \E draw1 \in D, draw2 \in D : game' = handle_input(Begin(game), "SPACE", draw1, draw2)

\* Spec: every command and the tick, rising lines under time pressure
SpecDraws == PlainDraws({"I", "O"})
SpecHoles == {{1, 2}}
SpecConfigs == {Config(TRUE, "pressure", FALSE, TRUE)}

Init == SessionInit(SpecConfigs, SpecDraws)
Next == SessionNext(MaxPieces, SpecDraws, SpecHoles)
Spec == Init /\ [][Next]_vars

\* SpecChain: long chains of clearing locks, with score amplifiers to harvest
ChainDraws ==
    PlainDraws({"I"})
    \cup {[type |-> "I", roll |-> TRUE, cell |-> <<0, 0>>, kind |-> "score_amplifier"]}

ChainInit == SessionInit({Config(FALSE, "off", TRUE, FALSE)}, ChainDraws)

\* a tick as long as the clear animation
ChainDeltas == {CLEAR_ANIMATION_DURATION}

ChainNext ==
    \/ Rotate(ChainPieces)
    \/ HardDrop(ChainPieces, ChainDraws)
    \/ Tick(ChainPieces, ChainDeltas, ChainDraws, SpecHoles)

SpecChain == ChainInit /\ [][ChainNext]_vars

\* SpecCombo: locks that clear and locks that do not, among holds, pauses,
\* ticks and rising lines on request
ComboDraws == PlainDraws({"I"})

ComboInit == SessionInit({Config(TRUE, "manual", FALSE, TRUE)}, ComboDraws)

ComboNext ==
    \/ Rotate(ComboPieces)
    \/ HardDrop(ComboPieces, ComboDraws)
    \/ Hold(ComboPieces, ComboDraws)
    \/ TogglePause(ComboPieces)
    \/ ManualRise(ComboPieces, SpecHoles)
    \/ Tick(ComboPieces, Deltas, ComboDraws, SpecHoles)

SpecCombo == ComboInit /\ [][ComboNext]_vars

\* SpecRising: rising lines by the timer and on request, over a stack that
\* holds a charged block and can reach the top row
RisingDraws ==
    PlainDraws({"O"})
    \cup {[type |-> "I", roll |-> TRUE, cell |-> <<0, 0>>, kind |-> "line_bomb"]}

RisingConfigs ==
    {Config(TRUE, "pressure", TRUE, FALSE), Config(TRUE, "manual", TRUE, FALSE)}

RisingInit == SessionInit(RisingConfigs, RisingDraws)

RisingNext ==
    \/ Rotate(RisingPieces)
    \/ HardDrop(RisingPieces, RisingDraws)
    \/ ManualRise(RisingPieces, SpecHoles)
    \/ Tick(RisingPieces, Deltas, RisingDraws, SpecHoles)

SpecRising == RisingInit /\ [][RisingNext]_vars

\* SpecPause: pauses and line clears while power-ups run and lines rise
PauseDraws == ChainDraws

PauseConfigs ==
    {Config(TRUE, "pressure", TRUE, FALSE), Config(TRUE, "manual", TRUE, FALSE)}

PauseInit == SessionInit(PauseConfigs, PauseDraws)

PauseNext ==
    \/ HardDrop(PausePieces, PauseDraws)
    \/ TogglePause(PausePieces)
    \/ ManualRise(PausePieces, SpecHoles)
    \/ Tick(PausePieces, Deltas, PauseDraws, SpecHoles)

SpecPause == PauseInit /\ [][PauseNext]_vars

\* SpecDemo: a session that starts in the demo, with the keys that leave and
\* re-enter it
DemoDraws == PlainDraws({"I", "O"})

DemoConfigs == {DemoConfig(Config(FALSE, "off", FALSE, TRUE), TRUE, FALSE)}

DemoInit == SessionInit(DemoConfigs, DemoDraws)

DemoNext ==
    \/ Tick(DemoPieces, Deltas, DemoDraws, SpecHoles)
    \/ ExitDemo(DemoPieces, DemoDraws)
    \/ StartDemo(DemoPieces, DemoDraws)
    \/ HardDrop(DemoPieces, DemoDraws)

SpecDemo == DemoInit /\ [][DemoNext]_vars

\* SpecOver: games that end (a stack lifted by rising lines on request, a
\* spawn that finds its cells taken) and are restarted, with the demo due
\* after a game over
OverDraws == PlainDraws({"I", "O"})
OverHoles == {{1}}

OverConfigs == {DemoConfig(Config(TRUE, "manual", FALSE, TRUE), FALSE, TRUE)}

OverInit == SessionInit(OverConfigs, OverDraws)

OverNext ==
    \/ Move(OverPieces, "RIGHT")
    \/ Rotate(OverPieces)
    \/ HardDrop(OverPieces, OverDraws)
    \/ Hold(OverPieces, OverDraws)
    \/ ManualRise(OverPieces, OverHoles)
    \/ Restart(OverPieces, OverDraws)
    \/ Tick(OverPieces, Deltas, OverDraws, OverHoles)

SpecOver == OverInit /\ [][OverNext]_vars

\* the M key of PlayingState.handle_input
OpenMenu(P) ==
    /\ Budget(P)
    /\ game.state.name = "Playing"
    /\ game' = handle_input(Begin(game), "m", NoPiece, NoPiece)

\* the keys of ConfigMenuState.handle_input
MenuKey(P, key) ==
    /\ Budget(P)
    /\ game.state.name = "ConfigMenu"
    /\ game' = handle_input(Begin(game), key, NoPiece, NoPiece)

\* SpecMenu: games of I pieces that climb the levels, with the configuration
\* menu opened, changed, confirmed and cancelled along the way
MenuDraws == PlainDraws({"I"})

MenuConfigs == {Config(FALSE, "off", FALSE, TRUE)}

MenuInit == SessionInit(MenuConfigs, MenuDraws)

MenuNext ==
    \/ HardDrop(MenuPieces, MenuDraws)
    \/ Tick(MenuPieces, {CLEAR_ANIMATION_DURATION}, MenuDraws, SpecHoles)
    \/ StartDemo(MenuPieces, MenuDraws)
    \/ ExitDemo(MenuPieces, MenuDraws)
    \/ OpenMenu(MenuPieces)
    \/ \E key \in {"UP", "DOWN", "LEFT", "RIGHT", "RETURN", "ESCAPE"} :
          MenuKey(MenuPieces, key)

SpecMenu == MenuInit /\ [][MenuNext]_vars

\* SpecFreeze: the configuration menu opened and left in games with rising
\* lines under time pressure and running time dilators
FreezeDraws ==
    PlainDraws({"O"})
        \cup {[type |-> "I", roll |-> TRUE, cell |-> <<0, 0>>, kind |-> "time_dilator"]}

FreezeConfigs == {Config(TRUE, "pressure", TRUE, FALSE)}

FreezeInit == SessionInit(FreezeConfigs, FreezeDraws)

FreezeNext ==
    \/ HardDrop(FreezePieces, FreezeDraws)
    \/ Tick(FreezePieces, {MaxDelta}, FreezeDraws, SpecHoles)
    \/ OpenMenu(FreezePieces)
    \/ MenuKey(FreezePieces, "ESCAPE")

SpecFreeze == FreezeInit /\ [][FreezeNext]_vars

\* SpecFall: pieces falling by the tick, in play and in the demo, while time
\* dilators are harvested, run and expire
FallDraws ==
    PlainDraws({"I"})
    \cup {[type |-> "I", roll |-> TRUE, cell |-> <<0, 0>>, kind |-> "time_dilator"]}

FallConfigs == {Config(FALSE, "off", TRUE, FALSE)}

FallInit == SessionInit(FallConfigs, FallDraws)

FallNext ==
    \/ HardDrop(FallPieces, FallDraws)
    \/ Tick(FallPieces, Deltas, FallDraws, SpecHoles)
    \/ StartDemo(FallPieces, FallDraws)
    \/ ExitDemo(FallPieces, FallDraws)

SpecFall == FallInit /\ [][FallNext]_vars

\* SpecTimer: the rising-lines timer, animation and manual cooldown in the
\* three rising modes and with rising lines switched off, over games that end
\* and are restarted
TimerDraws == PlainDraws({"O"})

TimerConfigs ==
    {Config(TRUE, "pressure", FALSE, FALSE), Config(TRUE, "survival", FALSE, FALSE),
     Config(TRUE, "manual", FALSE, FALSE), Config(FALSE, "manual", FALSE, FALSE)}

TimerInit == SessionInit(TimerConfigs, TimerDraws)

TimerNext ==
    \/ HardDrop(TimerPieces, TimerDraws)
    \/ ManualRise(TimerPieces, SpecHoles)
    \/ TogglePause(TimerPieces)
    \/ Restart(TimerPieces, TimerDraws)
    \/ Tick(TimerPieces, Deltas, TimerDraws, SpecHoles)

SpecTimer == TimerInit /\ [][TimerNext]_vars

\* SpecPlan: the planner called on the games of a session with the hold
\* feature, over stacks with gaps and overhangs
PlanDraws == PlainDraws({"I", "T"})

PlanConfigs == {Config(FALSE, "off", FALSE, TRUE)}

PlanInit == SessionInit(PlanConfigs, PlanDraws)

\* a call of DemoAI.find_best_move on the session
Plan(P) ==
    /\ Budget(P)
    /\ game.state.name = "Playing"
    /\ \E best \in {find_best_move(Heap(game))} :
          game' = [Store(Begin(game), best.heap) EXCEPT !.ev = {"plan"}]

PlanNext ==
    \/ Rotate(PlanPieces)
    \/ HardDrop(PlanPieces, PlanDraws)
    \/ Hold(PlanPieces, PlanDraws)
    \/ Plan(PlanPieces)

SpecPlan == PlanInit /\ [][PlanNext]_vars

\* SpecAI: demos played by the AI, with the hold feature on and off
AiDraws == PlainDraws({"I", "O"})

AiConfigs ==
    {DemoConfig(Config(FALSE, "off", FALSE, hold), TRUE, FALSE) : hold \in BOOLEAN}

AiInit == SessionInit(AiConfigs, AiDraws)

\* a frame of a session whose demo is played by its AI
AiTick(P, T, D) ==
    /\ Budget(P)
    /\ \E delta_time \in T,
          same_id \in IF game.state.name = "Demo" /\ IdReusable(game, ai_of(game.state))
                      THEN BOOLEAN ELSE {FALSE} :
          \E probe \in {update_with_ai(Begin(game), delta_time, same_id,
                                       AnyOf(D), AnyOf(D), AnyOf(SpecHoles))} :
              IF DrawsUsed(game, probe) = 0 THEN game' = probe
              ELSE \E draw1 \in D,
                      draw2 \in IF DrawsUsed(game, probe) >= 2 THEN D ELSE {AnyOf(D)} :
                      game' = update_with_ai(Begin(game), delta_time, same_id,
                                             draw1, draw2, AnyOf(SpecHoles))

AiNext ==
    \/ AiTick(AiPieces, Deltas, AiDraws)
    \/ ExitDemo(AiPieces, AiDraws)
    \/ StartDemo(AiPieces, AiDraws)

SpecAI == AiInit /\ [][AiNext]_vars

\* SpecLive: sessions whose frames keep arriving: games played with the piece
\* commands and rising lines on request, and demos played by the AI; a
\* session is followed until the piece after its last command has locked
LiveDraws == PlainDraws({"I"})

LiveConfigs ==
    {Config(TRUE, "manual", FALSE, TRUE),
     DemoConfig(Config(FALSE, "off", FALSE, TRUE), TRUE, FALSE)}

LiveInit == SessionInit(LiveConfigs, LiveDraws)

\* a frame with a positive delta_time
Frame(P, T, D, H) ==
    /\ game.rng_draws <= P /\ ~game.game_over
    /\ \E delta_time \in T :
          \E probe \in {update_with_ai(Begin(game), delta_time, FALSE,
                                       AnyOf(D), AnyOf(D), AnyOf(H))} :
              IF DrawsUsed(game, probe) = 0 /\ ~HolesUsed(probe) THEN game' = probe
              ELSE \E draw1 \in D,
                      draw2 \in (IF DrawsUsed(game, probe) >= 2 THEN D ELSE {AnyOf(D)}),
                      holes \in H :
                      game' = update_with_ai(Begin(game), delta_time, FALSE,
                                             draw1, draw2, holes)

\* a command of the player on the piece
Command(P, D, H) ==
    /\ game.state.name = "Playing"
    /\ \/ \E key \in {"LEFT", "RIGHT", "DOWN"} : Move(P, key)
       \/ Rotate(P)
       \/ HardDrop(P, D)
       \/ Hold(P, D)
       \/ ManualRise(P, H)

\* the keys that start a new game: D in a game, any key in the demo
NewSession(P, D) == StartDemo(P, D) \/ ExitDemo(P, D)

LiveNext ==
    \/ Command(LivePieces, LiveDraws, SpecHoles)
    \/ NewSession(LivePieces, LiveDraws)
    \/ Frame(LivePieces, {MaxDelta}, LiveDraws, SpecHoles)

\* the frames keep arriving
SpecLive ==
    LiveInit /\ [][LiveNext]_vars /\ WF_vars(Frame(LivePieces, {MaxDelta}, LiveDraws, SpecHoles))

\* SpecPhantom: O pieces and I pieces charged with phantom mode, moved, rotated,
\* dropped and left to fall, over the clears that activate the power-up and
\* the locks that use it up
PhantomDraws ==
    PlainDraws({"O"})
        \cup {[type |-> "I", roll |-> TRUE, cell |-> <<0, 0>>, kind |-> "phantom_mode"]}

PhantomConfigs == {Config(FALSE, "off", TRUE, FALSE)}

PhantomInit == SessionInit(PhantomConfigs, PhantomDraws)

PhantomNext ==
    \/ Rotate(PhantomPieces)
    \/ HardDrop(PhantomPieces, PhantomDraws)
    \/ Tick(PhantomPieces, {CLEAR_ANIMATION_DURATION}, PhantomDraws, SpecHoles)

SpecPhantom == PhantomInit /\ [][PhantomNext]_vars

\* SpecHold: the hold command among moves, rotations and locks, with the hold
\* feature on and off
HoldDraws == PlainDraws({"I", "O"})

HoldConfigs == {Config(FALSE, "off", FALSE, TRUE), Config(FALSE, "off", FALSE, FALSE)}

HoldInit == SessionInit(HoldConfigs, HoldDraws)

HoldNext ==
    \/ \E key \in {"LEFT", "RIGHT"} : Move(HoldPieces, key)
    \/ Rotate(HoldPieces)
    \/ Hold(HoldPieces, HoldDraws)
    \/ HardDrop(HoldPieces, HoldDraws)
    \/ Tick(HoldPieces, {CLEAR_ANIMATION_DURATION}, HoldDraws, SpecHoles)

SpecHold == HoldInit /\ [][HoldNext]_vars

(***************************************************************************)
(* Row removal as a function of the grid: the grid is drawn from the grids   *)
(* whose rows are empty, full or partly filled, clear_lines marks its full   *)
(* rows and finish_clearing_animation removes them.                          *)
(***************************************************************************)
RowFills ==
    {{}, {1}, {GRID_WIDTH}, {1, 2}, 2..GRID_WIDTH, 1..GRID_WIDTH}

ClearRows ==
    {[x \in 1..GRID_WIDTH |-> IF x \in fill THEN "CYAN" ELSE None] : fill \in RowFills}

ClearGrids == [1..GRID_HEIGHT -> ClearRows]

ClearDraws == PlainDraws({"O"})

ClearInit ==
    \E grid \in ClearGrids, draw \in ClearDraws :
        game = [NewGame(Config(FALSE, "off", FALSE, FALSE), draw, draw) EXCEPT !.grid = grid]

ClearLines ==
    /\ game.state.name = "Playing"
    /\ game.clearing_lines = <<>>
    /\ full_rows(game.grid) # <<>>
    /\ game' = clear_lines(Begin(game))

FinishClearing ==
    /\ game.clearing_lines # <<>>
    /\ \E draw \in ClearDraws :
          game' = LineClearingState_update(Begin(game), CLEAR_ANIMATION_DURATION, draw)

ClearNext == ClearLines \/ FinishClearing

SpecClear == ClearInit /\ [][ClearNext]_vars

(***************************************************************************)
(* The standalone game (src/tetris.py): its finish_clearing_animation       *)
(* deletes the marked rows from the last to the first and inserts an empty  *)
(* row on top after every deletion.                                         *)
(***************************************************************************)
\* del grid[y]
DeleteRow(grid, y) ==
    [i \in 1..(Len(grid) - 1) |-> IF i < y + 1 THEN grid[i] ELSE grid[i + 1]]

\* the loop over reversed(clearing_lines), from the k-th line down to the first
RECURSIVE DeleteReversed(_, _, _)
DeleteReversed(grid, lines, k) ==
    IF k = 0 THEN grid
    ELSE DeleteReversed(<<EmptyRow>> \o DeleteRow(grid, lines[k]), lines, k - 1)

legacy_finish_clearing_animation(g, draw) ==
    IF g.clearing_lines = <<>> THEN g
    ELSE spawn_new_piece(
             [g EXCEPT !.grid = DeleteReversed(@, g.clearing_lines, Len(g.clearing_lines)),
                       !.clearing_lines = <<>>,
                       !.removed = g.clearing_lines,
                       !.ev = @ \cup {"finish"}], draw)

\* LineClearingState.update of the standalone game
legacy_LineClearingState_update(g, delta_time, draw) ==
    LET g1 == [g EXCEPT !.clear_animation_time = @ + delta_time]
    IN  IF g1.clear_animation_time >= CLEAR_ANIMATION_DURATION
        THEN [legacy_finish_clearing_animation(g1, draw) EXCEPT !.state = PlayingState]
        ELSE g1

\* SpecLegacy: the grids of SpecClear under the standalone game's removal
LegacyFinish ==
    /\ game.clearing_lines # <<>>
    /\ \E draw \in ClearDraws :
          game' = legacy_LineClearingState_update(Begin(game), CLEAR_ANIMATION_DURATION, draw)

LegacyNext == ClearLines \/ LegacyFinish

SpecLegacy == ClearInit /\ [][LegacyNext]_vars

(***************************************************************************)
(* Scoring as a function of the grid, the level, the combo count and the     *)
(* score amplifier: clear_lines is called on a game in the middle of a       *)
(* chain of that length, at that level.                                      *)
(***************************************************************************)
ScoreRows ==
    {[x \in 1..GRID_WIDTH |-> IF x \in fill THEN "CYAN" ELSE None] :
        fill \in {{}, {1}, 1..GRID_WIDTH}}

ScoreGrids == [1..GRID_HEIGHT -> ScoreRows]

ScoreInit ==
    \E grid \in ScoreGrids, level \in 1..MaxLevel, c \in 0..MaxChain,
       amplified \in BOOLEAN, draw \in ClearDraws :
        LET g0 == NewGame(Config(FALSE, "off", TRUE, FALSE), draw, draw)
        IN  game = [g0 EXCEPT
                       !.grid = grid,
                       !.level = level,
                       !.lines_cleared = (level - 1) * LINES_PER_LEVEL,
                       !.fall_speed = level_fall_speed(g0, level),
                       !.combo_count = c,
                       !.combo_multiplier = IF c <= 1 THEN 10 ELSE clear_multiplier(c - 1),
                       !.active_powerups =
                           IF amplified
                           THEN DictPut(@, "score_amplifier", DURATION_SCORE_AMPLIFIER)
                           ELSE @]

SpecScore == ScoreInit /\ [][ClearNext]_vars

(***************************************************************************)
(* Harvesting as a function of the stack, the store and the running          *)
(* power-ups: an O piece is dropped into a stack whose rows miss the two     *)
(* middle cells, over a store of charged blocks in the stack.                *)
(***************************************************************************)
PowerRows ==
    {[x \in 1..GRID_WIDTH |-> IF x \in fill THEN "CYAN" ELSE None] :
        fill \in {{}, {1}, {1, GRID_WIDTH}}}

PowerGrids ==
    {grid \in [1..GRID_HEIGHT -> PowerRows] :
        \A y \in (GRID_HEIGHT - 1)..GRID_HEIGHT : grid[y][1] # None}

\* the cells of the stack that may hold a charged block
PowerCells == <<<<0, GRID_HEIGHT - 1>>, <<GRID_WIDTH - 1, GRID_HEIGHT - 1>>,
                <<0, GRID_HEIGHT - 2>>, <<0, GRID_HEIGHT - 3>>>>

PowerKinds == {"score_amplifier", "line_bomb"}

\* the store that tags the chosen cells, in the order the cells were locked
PowerStore(tags) ==
    LET Tagged(i) == tags[i] # None
        chosen == SelectSeq([i \in 1..Len(PowerCells) |-> i], Tagged)
    IN  [k \in 1..Len(chosen) |->
            <<PowerCells[chosen[k]][1], PowerCells[chosen[k]][2], tags[chosen[k]]>>]

\* what is left of the power-ups activated earlier
PowerRunning == [PowerKinds -> {0, DURATION_SCORE_AMPLIFIER - 1}]

\* a new game whose stack, store and running power-ups are drawn
StackInit(config) ==
    \E grid \in PowerGrids, draw \in ClearDraws,
       tags \in [1..Len(PowerCells) -> PowerKinds \cup {None}],
       running \in PowerRunning :
        /\ \A i \in 1..Len(PowerCells) :
               tags[i] # None => grid[PowerCells[i][2] + 1][PowerCells[i][1] + 1] # None
        /\ game = [NewGame(config, draw, draw) EXCEPT
                       !.grid = grid,
                       !.powerup_blocks = PowerStore(tags),
                       !.active_powerups =
                           [k \in {kind \in PowerKinds : running[kind] > 0} |-> running[k]]]

PowerInit == StackInit(Config(FALSE, "off", TRUE, FALSE))

PowerNext ==
    \/ HardDrop(PowerPieces, ClearDraws)
    \/ FinishClearing

SpecPower == PowerInit /\ [][PowerNext]_vars

\* SpecFollow: the same stacks and stores under line clears and rising lines
\* on request
FollowInit == StackInit(Config(TRUE, "manual", TRUE, FALSE))

FollowNext ==
    \/ HardDrop(PowerPieces, ClearDraws)
    \/ FinishClearing
    \/ ManualRise(PowerPieces, SpecHoles)

SpecFollow == FollowInit /\ [][FollowNext]_vars

(***************************************************************************)
(* The power-up manager on its own: activations, ticks and uses in any      *)
(* order.  A kind is activated again only while little of it is left.       *)
(***************************************************************************)
ManagerInit ==
    \E draw \in ClearDraws : game = NewGame(Config(FALSE, "off", TRUE, FALSE), draw, draw)

ManagerActivate ==
    \E kind \in PowerUpKinds :
        /\ (kind \in DOMAIN game.active_powerups) => game.active_powerups[kind] <= MaxRemaining
        /\ game' = activate_powerup(Begin(game), kind)

ManagerTick ==
    \E delta_time \in Deltas : game' = powerup_update(Begin(game), delta_time)

ManagerUse ==
    \E kind \in PowerUpKinds : game' = use_powerup(Begin(game), kind)

ManagerNext == ManagerActivate \/ ManagerTick \/ ManagerUse

SpecManager == ManagerInit /\ [][ManagerNext]_vars

(***************************************************************************)
(* Claims                                                                    *)
(***************************************************************************)
\* the rows (0-based) a clear in progress removes
ClearedSet(g) == {g.clearing_lines[i] : i \in 1..Len(g.clearing_lines)}

\* C1: finish_clearing_animation turns the grid into H rows of W cells: as
\* many empty rows as rows were marked, then the unmarked rows in their
\* original top-to-bottom order.
C1_RowRemoval ==
    [][("finish" \in game'.ev) =>
        LET S == ClearedSet(game)
            n == Cardinality(S)
            Unmarked(y) == y \notin S
            rest == SelectSeq([i \in 1..GRID_HEIGHT |-> i - 1], Unmarked)
        IN  /\ Len(game'.grid) = GRID_HEIGHT
            /\ \A y \in 1..GRID_HEIGHT : Len(game'.grid[y]) = GRID_WIDTH
            /\ \A y \in 1..n : \A x \in 1..GRID_WIDTH : game'.grid[y][x] = None
            /\ Len(rest) = GRID_HEIGHT - n
            /\ \A i \in 1..Len(rest) : game'.grid[n + i] = game.grid[rest[i] + 1]]_vars

\* C1 witness: rows 0 and H-1 were removed together, with rows between them kept
C1_Witness ==
    /\ "finish" \in game.ev
    /\ game.removed = <<0, GRID_HEIGHT - 1>>
    /\ \E x \in 1..GRID_WIDTH : game.grid[GRID_HEIGHT][x] # None

\* C3: the grid always has GRID_HEIGHT rows of GRID_WIDTH cells each.
C3_GridShape ==
    /\ Len(game.grid) = GRID_HEIGHT
    /\ \A y \in 1..Len(game.grid) : Len(game.grid[y]) = GRID_WIDTH

\* C3 witness: a rising line was inserted and a piece locked on top of it
C3_Witness ==
    /\ "rise" \in game.ev
    /\ "lock" \in game.ev
    /\ \E x \in 1..GRID_WIDTH : game.grid[GRID_HEIGHT - 1][x] \notin {None, RISING_LINE_COLOR}
    /\ \A x \in 1..GRID_WIDTH : game.grid[GRID_HEIGHT][x] \in {None, RISING_LINE_COLOR}
    /\ \E x \in 1..GRID_WIDTH : game.grid[GRID_HEIGHT][x] = RISING_LINE_COLOR

\* the score a clear of n rows earns at level L after c clears in a row, in
\* whole points: LINE_SCORES[n] * L, times min(1 + c, 5) unless c = 0, twice
\* that under a score amplifier
LineClearScore(n, L, c, amplified) ==
    LET m == IF c = 0 THEN 1 ELSE Min(1 + c, 5)
    IN  (LINE_SCORES[n] * L * m) * (IF amplified THEN 2 ELSE 1)

\* C4: a clear of n rows (n in 1..4) at level L, after c consecutive clears,
\* adds LINE_SCORES[n] * L * m to the score, with m = 1 for c = 0 and
\* min(1 + c, 5) otherwise, doubled iff the score amplifier is active.
C4_LineClearScore ==
    [][("clear" \in game'.ev) =>
        LET n == game'.lines_cleared - game.lines_cleared
        IN  n \in 1..4 =>
                game'.score = game.score
                    + LineClearScore(n, game.level, game.combo_count,
                                     "score_amplifier" \in DOMAIN game.active_powerups)]_vars

\* C4 witness: the second clear of a chain, two rows at level 2 under a score
\* amplifier, has scored 2 * (300 * 2 * 2.0)
C4_Witness ==
    /\ "clear" \in game.ev
    /\ game.combo_count = 2
    /\ Len(game.clearing_lines) = 2
    /\ "score_amplifier" \in DOMAIN game.active_powerups
    /\ game.score = 2400

\* C5: the combo multiplier is 1.0 whenever combo_count <= 1, and it never
\* exceeds 5.0.
C5_ComboInvariant ==
    /\ game.combo_count <= 1 => game.combo_multiplier = 10
    /\ game.combo_multiplier <= 50

\* C5 witness: the sixth clear of a chain has just been scored, at 5.0 and
\* not at 1.0 + 5
C5_Witness ==
    /\ "clear" \in game.ev
    /\ game.combo_count = 6
    /\ game.combo_multiplier = 50

\* C6: a lock that clears rows adds one to combo_count, a lock that clears
\* none sets combo_count to 0 and the multiplier to 1.0, and nothing else but
\* a reset changes combo_count.
C6_ComboChain ==
    [][IF "reset" \in game'.ev THEN TRUE
       ELSE IF "lock" \in game'.ev
            THEN IF game'.lines_cleared > game.lines_cleared
                 THEN game'.combo_count = game.combo_count + 1
                 ELSE game'.combo_count = 0 /\ game'.combo_multiplier = 10
            ELSE game'.combo_count = game.combo_count]_vars

\* C6 witness: the second piece of a game has locked without clearing a row,
\* after the first piece cleared one (no piece was held, so each of the two
\* draws made since the game began followed a lock): the chain is back at 0
C6_Witness ==
    /\ "lock" \in game.ev
    /\ "clear" \notin game.ev
    /\ game.rng_draws = 4
    /\ game.hold_piece.type = "None"
    /\ game.lines_cleared = 1
    /\ game.combo_count = 0
    /\ game.combo_multiplier = 10

\* the six wall-kick offsets
KickOffsets == {<<0, 0>>, <<-1, 0>>, <<1, 0>>, <<0, -1>>, <<-1, -1>>, <<1, -1>>}

\* no wall-kick offset gives the clockwise rotation of the piece a valid place
NoKickFits(g) ==
    LET rotated == [g.current_piece EXCEPT !.shape = rotate_clockwise(@)]
    IN  \A k \in KickOffsets : ~is_valid_position(g, rotated, k[1], k[2])

\* C7: when no wall-kick offset fits, rotate_piece leaves the piece's shape
\* matrix and its position as they were.
C7_RotationRollback ==
    (game.current_piece.type # "None" /\ NoKickFits(game)) =>
        LET t == rotate_piece(game)
        IN  /\ t.current_piece.shape = game.current_piece.shape
            /\ t.current_piece.x = game.current_piece.x
            /\ t.current_piece.y = game.current_piece.y

\* C7 witness: a rotation has just failed on a flat I piece low in the well,
\* and would fail again
C7_Witness ==
    /\ "rotate_failed" \in game.ev
    /\ game.current_piece.type = "I"
    /\ Len(game.current_piece.shape) = 1
    /\ NoKickFits(game)

\* C8: a rise triggered while the top row holds an occupied cell ends the
\* game (game_over set, state GameOver) and leaves the grid, the current
\* piece, the stored power-up blocks and the rising timer as they were.
C8_RiseOverflow ==
    will_rise_cause_game_over(game) =>
        \A holes \in HoleDraws :
            LET t == trigger_rising_line(game, holes)
            IN  /\ t.game_over
                /\ t.state.name = "GameOver"
                /\ t.grid = game.grid
                /\ t.current_piece = game.current_piece
                /\ t.powerup_blocks = game.powerup_blocks
                /\ t.rising_timer = game.rising_timer

\* C8 witness: the timer has just triggered a rise under a stack that reaches
\* the top row and holds a charged block; the game is over and the timer
\* still stands at the interval it reached
C8_Witness ==
    /\ "rise_overflow" \in game.ev
    /\ game.game_over
    /\ game.state.name = "GameOver"
    /\ will_rise_cause_game_over(game)
    /\ game.powerup_blocks # <<>>
    /\ game.current_piece.type # "None"
    /\ game.rising_timer >= game.rising_interval
    /\ game.rising_timer > 0

\* C9: a rise triggered while the top row is empty (rising lines enabled, mode
\* not off) moves every row up by one, puts a new bottom row whose empty cells
\* number between RISING_HOLES_MIN and RISING_HOLES_MAX and whose other cells
\* have the rising colour, moves the current piece up by one, starts the rise
\* animation and sets the rising timer to 0.
C9_RiseShift ==
    (/\ game.config.RISING_LINES_ENABLED
     /\ game.config.RISING_MODE # "off"
     /\ ~will_rise_cause_game_over(game)) =>
        \A holes \in HoleDraws :
            LET t == trigger_rising_line(game, holes)
                bottom == t.grid[GRID_HEIGHT]
                empty == {x \in 1..GRID_WIDTH : bottom[x] = None}
            IN  /\ Len(t.grid) = GRID_HEIGHT
                /\ \A i \in 0..(GRID_HEIGHT - 2) : t.grid[i + 1] = game.grid[i + 2]
                /\ Len(bottom) = GRID_WIDTH
                /\ Cardinality(empty) >= RISING_HOLES_MIN
                /\ Cardinality(empty) <= RISING_HOLES_MAX
                /\ \A x \in (1..GRID_WIDTH) \ empty : bottom[x] = RISING_LINE_COLOR
                /\ game.current_piece.type # "None" =>
                       /\ t.current_piece.y = game.current_piece.y - 1
                       /\ t.current_piece.x = game.current_piece.x
                /\ t.rising_animation_active
                /\ t.rising_timer = 0

\* C9 witness: a rise on request has just lifted locked blocks off the floor
\* and pushed the freshly spawned piece above the top row
C9_Witness ==
    /\ "rise" \in game.ev
    /\ game.rising_animation_active
    /\ game.rising_timer = 0
    /\ game.current_piece.type # "None"
    /\ game.current_piece.y = -1
    /\ game.grid[GRID_HEIGHT] = generate_rising_line({1, 2})
    /\ \E x \in 1..GRID_WIDTH :
           game.grid[GRID_HEIGHT - 1][x] \notin {None, RISING_LINE_COLOR}

\* C10: a lock that clears rows holding K stored power-up blocks removes
\* exactly those K blocks from the store and activates each of their kinds
\* once per block: a kind harvested n times gains n times its configured
\* duration or use count on top of what remained of it, and a kind that was
\* not harvested keeps what it had.
C10_PowerUpConservation ==
    [][("clear" \in game'.ev) =>
        LET S == ClearedSet(game')
            store == game.powerup_blocks
            hit == {i \in 1..Len(store) : store[i][2] \in S}
            Kept(b) == b[2] \notin S
            Remains(g, kind) ==
                IF kind \in DOMAIN g.active_powerups THEN g.active_powerups[kind] ELSE 0
        IN  /\ game'.powerup_blocks = SelectSeq(store, Kept)
            /\ Len(game'.powerup_blocks) = Len(store) - Cardinality(hit)
            /\ \A kind \in PowerUpKinds :
                   LET n == Cardinality({i \in hit : store[i][3] = kind})
                   IN  IF n = 0
                       THEN /\ (kind \in DOMAIN game'.active_powerups)
                                   <=> (kind \in DOMAIN game.active_powerups)
                            /\ Remains(game', kind) = Remains(game, kind)
                       ELSE /\ kind \in DOMAIN game'.active_powerups
                            /\ game'.active_powerups[kind] =
                                   Remains(game, kind) + n * POWER_UP_TYPES[kind].amount]_vars

\* C10 witness: one lock has just cleared two rows holding two score
\* amplifiers and a line bomb; a third amplifier stays in the store above
\* them, the amplifier runs for twice its duration and the bomb's use came
\* on top of the uses that were left
C10_Witness ==
    /\ "clear" \in game.ev
    /\ "lock" \in game.ev
    /\ Len(game.clearing_lines) = 2
    /\ game.powerup_blocks = <<<<0, GRID_HEIGHT - 3, "score_amplifier">>>>
    /\ DOMAIN game.active_powerups = PowerKinds
    /\ game.active_powerups["score_amplifier"] = 2 * DURATION_SCORE_AMPLIFIER
    /\ game.active_powerups["line_bomb"] = USES_LINE_BOMB + DURATION_SCORE_AMPLIFIER - 1

\* C2 (as stated): every row that is not removed moves down by the number of
\* removed rows above it (of smaller index).
C2_ShiftByRowsAbove ==
    [][("finish" \in game'.ev) =>
        LET S == ClearedSet(game)
        IN  \A y \in (0..(GRID_HEIGHT - 1)) \ S :
                LET d == Cardinality({s \in S : s < y})
                IN  /\ y + d < GRID_HEIGHT
                    /\ game'.grid[y + d + 1] = game.grid[y + 1]]_vars

\* C2 (amended): every row that is not removed moves down by the number of
\* removed rows below it (of larger index).
C2_ShiftByRowsBelow ==
    [][("finish" \in game'.ev) =>
        LET S == ClearedSet(game)
        IN  \A y \in (0..(GRID_HEIGHT - 1)) \ S :
                LET d == Cardinality({s \in S : s > y})
                IN  /\ y + d < GRID_HEIGHT
                    /\ game'.grid[y + d + 1] = game.grid[y + 1]]_vars

\* C2 witness: a kept, occupied row had removed rows on both sides and moved
C2_Witness ==
    /\ "finish" \in game.ev
    /\ Len(game.removed) = 2
    /\ game.removed[1] + 1 < game.removed[2]
    /\ game.removed[2] < GRID_HEIGHT - 1
    /\ \E x \in 1..GRID_WIDTH : game.grid[game.removed[2] + 1][x] # None

\* C11: power-up blocks follow their cells.  When rows S are removed, every
\* block left in the store moves down by the number of rows of S below it
\* (of larger index), as the grid row it sits on does; when a rising line is
\* inserted, every block moves up by one row and the blocks of row 0 are
\* dropped; columns and kinds stay as they were.
C11_PowerUpsFollow ==
    [][/\ ("finish" \in game'.ev) =>
              LET S == ClearedSet(game)
                  old == game.powerup_blocks
                  new == game'.powerup_blocks
              IN  /\ Len(new) = Len(old)
                  /\ \A i \in 1..Len(old) :
                         LET d == Cardinality({s \in S : s > old[i][2]})
                         IN  /\ new[i] = <<old[i][1], old[i][2] + d, old[i][3]>>
                             /\ game'.grid[new[i][2] + 1][new[i][1] + 1]
                                    = game.grid[old[i][2] + 1][old[i][1] + 1]
       /\ ("rise" \in game'.ev) =>
              LET InGrid(b) == b[2] > 0
                  old == SelectSeq(game.powerup_blocks, InGrid)
                  new == game'.powerup_blocks
              IN  /\ Len(new) = Len(old)
                  /\ \A i \in 1..Len(old) :
                         /\ new[i] = <<old[i][1], old[i][2] - 1, old[i][3]>>
                         /\ game'.grid[new[i][2] + 1][new[i][1] + 1]
                                = game.grid[old[i][2] + 1][old[i][1] + 1]]_vars

\* C11 witness: a block that sat above two removed rows came down to the
\* floor with its cell, and a rising line has just lifted both by one row
C11_Witness ==
    /\ "rise" \in game.ev
    /\ game.lines_cleared = 2
    /\ game.clearing_lines = <<>>
    /\ game.powerup_blocks = <<<<0, GRID_HEIGHT - 2, "score_amplifier">>>>
    /\ game.grid[GRID_HEIGHT - 1][1] = "CYAN"
    /\ game.grid[GRID_HEIGHT] = generate_rising_line({1, 2})

\* what is left of a kind: 0 when it is not in the active set
Remaining(g, kind) ==
    IF kind \in DOMAIN g.active_powerups THEN g.active_powerups[kind] ELSE 0

\* C12: every kind in the active set has a strictly positive remaining
\* duration or use count; a tick of delta lowers every duration-based entry
\* by delta, removing it when nothing positive is left, and leaves use-based
\* entries alone; use_powerup lowers a use-based entry by exactly 1, and
\* returns false and changes nothing for a kind that is inactive or
\* duration-based.
C12_ActivePowerUps ==
    /\ \A kind \in DOMAIN game.active_powerups : game.active_powerups[kind] > 0
    /\ \A delta_time \in 0..(MaxDelta + 1) :
           LET t == powerup_update(game, delta_time)
           IN  \A kind \in PowerUpKinds :
                   IF POWER_UP_TYPES[kind].kind = "duration"
                   THEN /\ Remaining(t, kind) = Max(0, Remaining(game, kind) - delta_time)
                        /\ (kind \in DOMAIN t.active_powerups) <=>
                               (Remaining(game, kind) - delta_time > 0)
                   ELSE /\ Remaining(t, kind) = Remaining(game, kind)
                        /\ (kind \in DOMAIN t.active_powerups) <=>
                               (kind \in DOMAIN game.active_powerups)
    /\ \A kind \in PowerUpKinds :
           LET t == use_powerup(game, kind)
           IN  IF kind \notin DOMAIN game.active_powerups
                  \/ POWER_UP_TYPES[kind].kind = "duration"
               THEN /\ ~use_powerup_ok(game, kind)
                    /\ t.active_powerups = game.active_powerups
               ELSE /\ use_powerup_ok(game, kind)
                    /\ Remaining(t, kind) = Remaining(game, kind) - 1
                    /\ \A other \in PowerUpKinds \ {kind} :
                           /\ Remaining(t, other) = Remaining(game, other)
                           /\ (other \in DOMAIN t.active_powerups) <=>
                                  (other \in DOMAIN game.active_powerups)

\* C12 witness: one use of phantom mode is spent, the score amplifier has
\* run for one millisecond and the precision lock, activated with them, has
\* run out
C12_Witness ==
    /\ DOMAIN game.active_powerups = {"phantom_mode", "score_amplifier"}
    /\ game.active_powerups["phantom_mode"] = 2 * USES_PHANTOM_MODE - 1
    /\ game.active_powerups["score_amplifier"] = DURATION_SCORE_AMPLIFIER - DURATION_PRECISION_LOCK

\* C13: while the session is Paused, a tick of any delta leaves the remaining
\* durations of the active power-ups, the combo display timer, the fall
\* accumulator, the grid and the current piece as they were.
C13_PauseSuspendsTicking ==
    (game.state.name = "Paused") =>
        \A delta_time \in Deltas :
            LET t == update(game, delta_time, "none", AnyOf(PauseDraws), AnyOf(PauseDraws),
                            AnyOf(SpecHoles))
            IN  /\ t.active_powerups = game.active_powerups
                /\ t.combo_display_time = game.combo_display_time
                /\ t.fall_time = game.fall_time
                /\ t.grid = game.grid
                /\ t.current_piece = game.current_piece

\* C13, the state that refutes it: the game was paused while a harvested
\* score amplifier was running, and a tick has just taken time off it
C13_PausedDecay ==
    /\ game.state.name = "Paused"
    /\ "tick" \in game.ev
    /\ "score_amplifier" \in DOMAIN game.active_powerups
    /\ game.active_powerups["score_amplifier"] = 1

\* C14: rising lines are frozen while the session is Paused or LineClearing:
\* a tick in either state leaves the rising timer, the warning flag, the rise
\* animation and the manual cooldown as they were and inserts no rising line.
C14_RisingFrozen ==
    (game.state.name \in {"Paused", "LineClearing"}) =>
        \A delta_time \in Deltas, draw \in PauseDraws, holes \in SpecHoles :
            LET t == update(Begin(game), delta_time, "none", draw, draw, holes)
            IN  /\ t.rising_timer = game.rising_timer
                /\ t.rising_warning_active = game.rising_warning_active
                /\ t.rising_animation_active = game.rising_animation_active
                /\ t.rising_animation_progress = game.rising_animation_progress
                /\ t.rising_manual_cooldown = game.rising_manual_cooldown
                /\ "rise" \notin t.ev
                /\ "rise_overflow" \notin t.ev
                /\ t.grid[GRID_HEIGHT] # game.grid[GRID_HEIGHT] => "finish" \in t.ev

\* C14 witness: a tick has just passed over a game paused one millisecond
\* before its next rising line, with the warning on
C14_Witness ==
    /\ game.state.name = "Paused"
    /\ "tick" \in game.ev
    /\ game.config.RISING_MODE = "pressure"
    /\ game.rising_timer = game.rising_interval - 1
    /\ game.rising_warning_active

\* C15: a lock in Playing or Demo that completes at least one row puts the
\* session in LineClearing with the full rows still in the grid and the locked
\* piece still current (no spawn); while LineClearing, rows are removed and the
\* next piece spawned only in the step whose accumulated animation time reaches
\* CLEAR_ANIMATION_DURATION, and the session is then in the state it was in at
\* the lock (Playing after Playing, Demo after Demo).
C15_DeferredRemoval ==
    [][/\ (/\ game.state.name \in {"Playing", "Demo"}
           /\ {"lock", "clear"} \subseteq game'.ev
           /\ "spawn_blocked" \notin game'.ev)
          => /\ game'.state.name = "LineClearing"
             /\ game'.state.previous_state.name = game.state.name
             /\ game'.clearing_lines # <<>>
             /\ game'.clearing_lines = full_rows(game'.grid)
             /\ game'.clear_animation_time = 0
             /\ "finish" \notin game'.ev
             /\ game'.next_piece = game.next_piece
             /\ \A b \in get_blocks(game'.current_piece) :
                    b[2] >= 0 => game'.grid[b[2] + 1][b[1] + 1] # None
       /\ game.state.name = "LineClearing"
          => IF game'.clear_animation_time >= CLEAR_ANIMATION_DURATION
             THEN /\ {"tick", "finish", "spawn"} \subseteq game'.ev
                  /\ game'.removed = game.clearing_lines
                  /\ game'.clearing_lines = <<>>
                  /\ full_rows(game'.grid) = <<>>
                  /\ game'.current_piece.type = game.next_piece.type
                  /\ game'.state.name = game.state.previous_state.name
             ELSE /\ game'.state = game.state
                  /\ game'.grid = game.grid
                  /\ game'.clearing_lines = game.clearing_lines
                  /\ game'.clearing_lines = full_rows(game'.grid)
                  /\ game'.current_piece = game.current_piece
                  /\ game'.next_piece = game.next_piece
                  /\ game'.rng_draws = game.rng_draws
      ]_vars

\* the demo resumed after a line clear it made itself: the animation has just
\* finished, the rows are gone and the next piece is in play
C15_Witness ==
    /\ game.state.name = "Demo"
    /\ {"tick", "finish", "spawn"} \subseteq game.ev
    /\ game.removed # <<>>
    /\ game.lines_cleared >= 1
    /\ ~game.game_over

\* C16: whenever a newly spawned piece overlaps an occupied cell (after a lock
\* that cleared nothing, after a line-clear animation has finished, or after a
\* first hold), the session is in the GameOver state with game_over set once
\* the operation has returned.
C16_BlockedSpawnGameOver ==
    "spawn_blocked" \in game.ev => game.state.name = "GameOver" /\ game.game_over

\* a spawn blocked at the end of a line-clear animation: game_over is set, and
\* the session is back in Playing
C16_OverButPlaying ==
    /\ {"tick", "finish", "spawn_blocked"} \subseteq game.ev
    /\ game.game_over
    /\ game.state.name = "Playing"

\* C17: with DEMO_AFTER_GAME_OVER on, once the session is in GameOver, ticks
\* delivered through TetrisGame.update whose deltas add up to at least
\* DEMO_GAME_OVER_DELAY reset the session and put it in Demo; stated for the
\* tick that brings the time spent in GameOver up to the delay at once.
C17_AutoDemo ==
    (game.state.name = "GameOver" /\ game.config.DEMO_AFTER_GAME_OVER)
    => \A draw1 \in OverDraws, draw2 \in OverDraws :
          LET t == update(Begin(game), DEMO_GAME_OVER_DELAY - game.state.game_over_time,
                          "none", draw1, draw2, AnyOf(OverHoles))
          IN  /\ t.state.name = "Demo"
              /\ "reset" \in t.ev
              /\ ~t.game_over
              /\ t.grid = EmptyGrid
              /\ t.score = 0

\* a game that is over, with the demo due, after a tick: nothing has moved,
\* not even the time spent in GameOver
C17_GameOverIdle ==
    /\ game.state.name = "GameOver"
    /\ game.config.DEMO_AFTER_GAME_OVER
    /\ game.game_over
    /\ game.state.game_over_time = 0
    /\ game.ev = {}

\* C18: Restart in GameOver puts the session in Playing with game_over false
\* and fresh simulation state: empty grid, score 0, level 1, no lines cleared,
\* initial fall speed, fall accumulator 0, combo 0 at multiplier 1.0, no
\* power-up blocks, no active power-ups, empty hold slot with hold available,
\* no pending line clear, rising timer, warning, animation and manual cooldown
\* cleared.
C18_RestartFresh ==
    game.state.name = "GameOver"
    => \A draw1 \in OverDraws, draw2 \in OverDraws :
          LET t == handle_input(Begin(game), "r", draw1, draw2)
          IN  /\ t.state = PlayingState
              /\ ~t.game_over
              /\ t.grid = EmptyGrid
              /\ t.score = 0
              /\ t.level = 1
              /\ t.lines_cleared = 0
              /\ t.fall_speed = t.config.INITIAL_FALL_SPEED
              /\ t.fall_time = 0
              /\ t.combo_count = 0
              /\ t.combo_multiplier = 10
              /\ t.powerup_blocks = <<>>
              /\ t.active_powerups = EmptyDict
              /\ t.hold_piece = NoPiece
              /\ t.can_hold
              /\ t.clearing_lines = <<>>
              /\ t.rising_timer = 0
              /\ ~t.rising_warning_active
              /\ ~t.rising_animation_active
              /\ t.rising_animation_progress = 0
              /\ t.rising_manual_cooldown = 0

\* a restarted game whose first piece has part of its fall interval behind it
C18_RestartKeepsFallTime ==
    /\ "reset" \in game.ev
    /\ game.state.name = "Playing"
    /\ game.score = 0
    /\ game.grid = EmptyGrid
    /\ game.fall_time > 0
\* what a command left of the session, the record of the handler's events
\* aside
SessionState(g) == [g EXCEPT !.ev = {}, !.removed = <<>>]

\* C19: between two consecutive spawns of a new piece at most one Hold changes
\* the current piece or the hold slot, and every further Hold before the next
\* spawn changes nothing; with HOLD_ENABLED off a Hold never changes any
\* session state.
C19_HoldOncePerPiece ==
    /\ game.holds <= 1
    /\ \A draw \in HoldDraws :
          LET t == handle_input(game, "c", draw, draw)
          IN  /\ game.holds >= 1 => SessionState(t) = SessionState(game)
              /\ ~game.config.HOLD_ENABLED => SessionState(t) = SessionState(game)
              /\ (t.current_piece # game.current_piece \/ t.hold_piece # game.hold_piece)
                 => game.holds = 0 /\ t.holds = 1

\* a second Hold on the piece that came out of the hold slot, moved and
\* rotated since: ignored
C19_Witness ==
    /\ "hold_ignored" \in game.ev
    /\ game.config.HOLD_ENABLED
    /\ game.state.name = "Playing"
    /\ game.holds = 1
    /\ game.hold_piece.type = "O"
    /\ game.current_piece.type = "I"
    /\ game.current_piece.shape # SHAPES["I"]
    /\ game.rng_draws = 3

\* C20: after a Hold that took effect the hold slot has the type of the
\* previous current piece, unrotated, at the spawn position; and when the slot
\* was occupied the new current piece has the previously held type, unrotated,
\* at the spawn position.
C20_HoldResetsPlacement ==
    [][("hold" \in game'.ev /\ game.state.name = "Playing")
       => /\ game'.hold_piece.type = game.current_piece.type
          /\ game'.hold_piece.shape = SHAPES[game.current_piece.type]
          /\ game'.hold_piece.x
                = (GRID_WIDTH \div 2) - (Len(SHAPES[game.current_piece.type][1]) \div 2)
          /\ game'.hold_piece.y = 0
          /\ game.hold_piece.type # "None"
             => /\ game'.current_piece.type = game.hold_piece.type
                /\ game'.current_piece.shape = SHAPES[game.hold_piece.type]
                /\ game'.current_piece.x
                      = (GRID_WIDTH \div 2) - (Len(SHAPES[game.hold_piece.type][1]) \div 2)
                /\ game'.current_piece.y = 0
                /\ "spawn" \notin game'.ev
      ]_vars

\* a swap: the held O is back in play at the spawn position and the I that was
\* current is in the slot, flat
C20_Witness ==
    /\ "hold" \in game.ev
    /\ "spawn" \notin game.ev
    /\ game.current_piece = Tetromino("O")
    /\ game.hold_piece = Tetromino("I")
    /\ game.holds = 1
    /\ ~game.can_hold

\* the largest number of consecutive valid single-row moves down
RowsDown(g) ==
    CHOOSE r \in 0..(2 * GRID_HEIGHT) :
        /\ \A k \in 1..r : is_valid_position(g, g.current_piece, 0, k)
        /\ ~is_valid_position(g, g.current_piece, 0, r + 1)

\* C21: a hard drop moves the current piece straight down by the largest
\* number r of consecutive valid single-row moves, adds exactly
\* r * HARD_DROP_BONUS to the score and locks the piece there within the same
\* command.
C21_HardDrop ==
    (game.state.name = "Playing" /\ game.current_piece.type # "None")
    => \A draw \in SpecDraws :
          LET r == RowsDown(game)
              t == handle_input(Begin(game), "SPACE", draw, draw)
              landed == [Begin(game) EXCEPT !.current_piece.y = @ + r,
                                            !.score = @ + r * HARD_DROP_BONUS]
          IN  /\ \E n \in 0..(2 * GRID_HEIGHT) :
                    /\ \A k \in 1..n : is_valid_position(game, game.current_piece, 0, k)
                    /\ ~is_valid_position(game, game.current_piece, 0, n + 1)
              /\ "lock" \in t.ev
              /\ t = lock_piece(landed, draw)
              /\ \A b \in get_blocks(game.current_piece) :
                    b[2] + r >= 0 => t.grid[b[2] + r + 1][b[1] + 1] = game.current_piece.color

\* an O dropped from the spawn row to the floor of the empty board: two rows,
\* two bonuses, locked and the next piece spawned
C21_Witness ==
    /\ {"lock", "spawn"} \subseteq game.ev
    /\ "tick" \notin game.ev
    /\ game.soft_drops = 0
    /\ game.score = (GRID_HEIGHT - 2) * HARD_DROP_BONUS
    /\ game.grid[GRID_HEIGHT][2] = "YELLOW"
    /\ game.grid[GRID_HEIGHT - 1][2] = "YELLOW"
    /\ game.lines_cleared = 0

\* C22: in every reachable state level = floor(lines_cleared / LINES_PER_LEVEL)
\* + 1 and fall_speed = max(MIN_FALL_SPEED, INITIAL_FALL_SPEED - (level - 1) *
\* LEVEL_SPEED_DECREASE), with the speeds of the session's configuration; the
\* level never decreases between resets.
C22_LevelAndFallSpeed ==
    /\ [](/\ game.level = (game.lines_cleared \div LINES_PER_LEVEL) + 1
          /\ game.fall_speed
                = Max(game.config.MIN_FALL_SPEED,
                      game.config.INITIAL_FALL_SPEED
                          - (game.level - 1) * game.config.LEVEL_SPEED_DECREASE))
    /\ [][("reset" \notin game'.ev) => game'.level >= game.level]_vars

\* level 3 reached, then the easy preset confirmed in the menu: the fall speed is
\* the easy one for level 3
C22_Witness ==
    /\ "apply" \in game.ev
    /\ game.level = 3
    /\ game.lines_cleared = 2 * LINES_PER_LEVEL
    /\ game.config.INITIAL_FALL_SPEED = DIFFICULTY_SETTINGS["easy"].initial_speed
    /\ game.fall_speed = DIFFICULTY_SETTINGS["easy"].initial_speed
                             - 2 * DIFFICULTY_SETTINGS["easy"].speed_decrease

\* the game the auto-fall of a tick finds: in the demo, after the AI's move
AfterAiMove(g, ai_move, draw) ==
    IF g.state.name = "Demo" THEN make_next_move(g, ai_move, draw) ELSE g

\* what a tick of delta_time makes of the falling piece: g before the tick,
\* h after the tick's power-up decay and AI move, t after the tick
AutoFallStep(g, delta_time, h, t) ==
    LET dilated == /\ "time_dilator" \in DOMAIN g.active_powerups
                   /\ g.active_powerups["time_dilator"] > delta_time
        interval == IF dilated THEN 2 * g.fall_speed ELSE g.fall_speed
    IN  IF g.fall_time + delta_time >= interval
        THEN /\ t.fall_time = 0
             /\ IF is_valid_position(h, h.current_piece, 0, 1)
                THEN /\ t.current_piece = [h.current_piece EXCEPT !.y = @ + 1]
                     /\ t.grid = h.grid
                     /\ "lock" \notin t.ev
                ELSE /\ "lock" \in t.ev
                     /\ \A b \in get_blocks(h.current_piece) :
                           b[2] >= 0 => t.grid[b[2] + 1][b[1] + 1] # None
        ELSE /\ t.fall_time = g.fall_time + delta_time
             /\ t.current_piece = h.current_piece
             /\ t.grid = h.grid
             /\ "lock" \notin t.ev

RisingTicks(g) ==
    /\ ~g.game_over
    /\ g.state.name \notin {"LineClearing", "Paused"}
    /\ g.config.RISING_LINES_ENABLED
    /\ g.config.RISING_MODE # "off"

\* what a tick of delta_time over g, giving t, does to the rising timer
RisingTimerStep(g, delta_time, t) ==
    LET rose == "rise" \in t.ev \/ "rise_overflow" \in t.ev
    IN  /\ g.rising_animation_active
           => /\ t.rising_timer = g.rising_timer
              /\ ~rose
              /\ t.grid[GRID_HEIGHT] # g.grid[GRID_HEIGHT]
                 => ("lock" \in t.ev \/ "finish" \in t.ev)
              /\ RisingTicks(g)
                 => /\ t.rising_manual_cooldown = Max(0, g.rising_manual_cooldown - delta_time)
                    /\ IF g.rising_animation_progress + delta_time >= RISING_ANIMATION_DURATION
                       THEN ~t.rising_animation_active /\ t.rising_animation_progress = 0
                       ELSE /\ t.rising_animation_active
                            /\ t.rising_animation_progress
                                   = g.rising_animation_progress + delta_time
        /\ g.config.RISING_MODE = "manual"
           => /\ t.rising_timer = g.rising_timer
              /\ ~rose
              /\ t.grid[GRID_HEIGHT] # g.grid[GRID_HEIGHT]
                 => ("lock" \in t.ev \/ "finish" \in t.ev)
        /\ (g.config.RISING_MODE \in {"pressure", "survival"} /\ ~g.game_over)
           => /\ rose <=> /\ RisingTicks(g)
                          /\ ~g.rising_animation_active
                          /\ g.rising_timer + delta_time >= g.rising_interval
              /\ (~rose /\ RisingTicks(g) /\ ~g.rising_animation_active)
                 => t.rising_timer = g.rising_timer + delta_time

\* C24: while a rise animation is in progress a tick advances only the
\* animation (and the cooldown) and never the rising timer; in manual mode no
\* tick advances the rising timer or inserts a rising line; in pressure and
\* survival mode a rise is triggered on exactly the ticks that bring the timer
\* to the interval or beyond, and between ticks of a running game the timer is
\* below the interval.
C24_RisingTimer ==
    /\ (game.config.RISING_MODE \in {"pressure", "survival"} /\ ~game.game_over)
       => game.rising_timer < game.rising_interval
    /\ \A delta_time \in Deltas, draw \in TimerDraws :
          RisingTimerStep(game, delta_time,
              update(Begin(game), delta_time, "none", draw, draw, AnyOf(SpecHoles)))

\* a tick has advanced the animation of a timed rise and left the timer at 0
C24_Witness ==
    /\ game.config.RISING_MODE = "survival"
    /\ "tick" \in game.ev
    /\ "rise" \notin game.ev
    /\ game.rising_animation_active
    /\ game.rising_animation_progress > 0
    /\ game.rising_timer = 0

\* C25: in a session configured with rising mode survival the threshold the
\* rising timer is compared against equals the configured survival interval
\* in every reachable state, including before the first rise after
\* construction or reset.
C25_SurvivalInterval ==
    (game.config.RISING_LINES_ENABLED /\ game.config.RISING_MODE = "survival")
    => game.rising_interval = game.config.RISING_SURVIVAL_INTERVAL

\* a survival game on which ticks totalling the survival interval have passed
\* without a rise
C25_FirstRiseLate ==
    /\ game.config.RISING_LINES_ENABLED
    /\ game.config.RISING_MODE = "survival"
    /\ game.state.name = "Playing"
    /\ "tick" \in game.ev
    /\ "rise" \notin game.ev
    /\ ~game.rising_animation_active
    /\ game.rising_timer >= game.config.RISING_SURVIVAL_INTERVAL
    /\ game.grid = EmptyGrid

\* what a manual rise request over g, giving t, does
ManualRiseStep(g, t) ==
    IF g.config.RISING_LINES_ENABLED /\ g.config.RISING_MODE = "manual"
       /\ g.rising_manual_cooldown = 0
    THEN /\ ("rise" \in t.ev) # ("rise_overflow" \in t.ev)
         /\ t.rising_manual_cooldown = RISING_MANUAL_COOLDOWN
         /\ "rise" \in t.ev
            => /\ t.grid[GRID_HEIGHT] = generate_rising_line(AnyOf(SpecHoles))
               /\ \A i \in 1..(GRID_HEIGHT - 1) : t.grid[i] = g.grid[i + 1]
    ELSE SessionState(t) = SessionState(g)

\* C26: a manual rise request has an effect only when rising lines are
\* enabled, the mode is manual and the cooldown is 0; it then triggers one
\* rise and sets the cooldown to RISING_MANUAL_COOLDOWN; every further request
\* changes nothing while the cooldown is positive; each tick of the running
\* game lowers the cooldown by its delta and never below 0, so the cooldown
\* always equals what is left of RISING_MANUAL_COOLDOWN.
C26_ManualCooldown ==
    /\ game.rising_manual_cooldown \in 0..RISING_MANUAL_COOLDOWN
    /\ game.state.name = "Playing"
       => ManualRiseStep(game, manual_trigger_rise(Begin(game), AnyOf(SpecHoles)))
    /\ RisingTicks(game)
       => \A delta_time \in Deltas, draw \in TimerDraws :
             update(Begin(game), delta_time, "none", draw, draw,
                    AnyOf(SpecHoles)).rising_manual_cooldown
                 = Max(0, game.rising_manual_cooldown - delta_time)

\* a request made during the cooldown of an earlier rise has been ignored
C26_Witness ==
    /\ game.config.RISING_MODE = "manual"
    /\ game.state.name = "Playing"
    /\ game.ev = {}
    /\ game.rising_manual_cooldown \in 1..(RISING_MANUAL_COOLDOWN - 1)
    /\ game.grid[GRID_HEIGHT] # EmptyGrid[GRID_HEIGHT]

\* the result of a planner call without the heap it leaves
Answer(r) == [f \in (DOMAIN r) \ {"heap"} |-> r[f]]

\* r1 is what a planner call on g returned, r2 what the same call returned
\* on the session the first call left
CallPure(g, r1, r2) ==
    /\ Store(g, r1.heap) = g
    /\ Store(g, r2.heap) = g
    /\ Answer(r2) = Answer(r1)

\* C27: evaluate_placement and find_best_move never change the live grid,
\* the current, next or hold piece or the hold flag, and a second call on the
\* session the first call left returns the same result.
C27_PlanningPure ==
    /\ \A r1 \in {find_best_move(Heap(game))} :
          \A r2 \in {find_best_move(r1.heap)} : CallPure(game, r1, r2)
    /\ \A piece \in {CURRENT, NEXT, HOLD}, x \in 0..(GRID_WIDTH - 1), rotation \in 0..3 :
          Heap(game).pieces[piece] # NoPiece
          => \A r1 \in {evaluate_placement(Heap(game), piece, x, rotation)} :
                \A r2 \in {evaluate_placement(r1.heap, piece, x, rotation)} :
                    CallPure(game, r1, r2)

\* the planner has been called on a game with a stack and a held piece, and
\* its answer is to hold
C27_Witness ==
    /\ "plan" \in game.ev
    /\ game.grid # EmptyGrid
    /\ game.hold_piece # NoPiece
    /\ game.can_hold
    /\ find_best_move(Heap(game)).use_hold

\* the rows of a grid with exactly n filled cells
RowsFilled(grid, n) ==
    {y \in 1..GRID_HEIGHT : Cardinality({col \in 1..GRID_WIDTH : grid[y][col] # None}) = n}

\* the score the claim gives a candidate grid
ClaimedScore(grid) ==
    (CASE Cardinality(RowsFilled(grid, GRID_WIDTH)) = 1 -> 100
       [] Cardinality(RowsFilled(grid, GRID_WIDTH)) = 2 -> 300
       [] Cardinality(RowsFilled(grid, GRID_WIDTH)) = 3 -> 500
       [] Cardinality(RowsFilled(grid, GRID_WIDTH)) = 4 -> 800
       [] OTHER -> 0)
    - sum(_get_column_heights(grid))
    - 500 * Cardinality({c \in (1..GRID_WIDTH) \X (1..GRID_HEIGHT) :
                            /\ grid[c[2]][c[1]] = None
                            /\ \E y \in 1..(c[2] - 1) : grid[y][c[1]] # None})
    - 50 * sum([i \in 1..(GRID_WIDTH - 1) |->
                   abs(_get_column_heights(grid)[i] - _get_column_heights(grid)[i + 1])])
    + 50 * Cardinality(RowsFilled(grid, GRID_WIDTH - 1))

\* C28: for every grid obtained by overlaying a validly resting piece the
\* evaluation equals (100, 300, 500 or 800 for 1, 2, 3 or 4 full rows, else 0)
\* minus the sum of column heights, minus 500 per empty cell with an occupied
\* cell above it, minus 50 times the sum of absolute height differences of
\* adjacent columns, plus 50 for each row with exactly GRID_WIDTH - 1 filled
\* cells; a candidate whose resting position is invalid scores minus infinity.
C28_CandidateScore ==
    \A piece \in {CURRENT, NEXT, HOLD}, x \in (-1)..GRID_WIDTH, rotation \in 0..3 :
        Heap(game).pieces[piece] # NoPiece
        => \A r \in {evaluate_placement(Heap(game), piece, x, rotation)} :
              IF Rests(Dropped(Heap(game), piece, x, rotation))
              THEN r.score = ClaimedScore(r.grid)
              ELSE r.score = NEG_INF

\* a candidate of the current piece that completes a row is scored 50 above
\* the claimed sum for every row it completes
C28_FullRowBonus ==
    \E x \in 0..(GRID_WIDTH - 1), rotation \in 0..3 :
        \E r \in {evaluate_placement(Heap(game), CURRENT, x, rotation)} :
            /\ game.current_piece # NoPiece
            /\ r.score # NEG_INF
            /\ RowsFilled(r.grid, GRID_WIDTH) # {}
            /\ r.score = ClaimedScore(r.grid)
                             + 50 * Cardinality(RowsFilled(r.grid, GRID_WIDTH))

\* C29: confirming a difficulty in the configuration menu sets the fall-speed
\* parameters and the rising-interval parameters of the session's
\* configuration to the values of the selected preset and recomputes the fall
\* speed for the current level.
C29_PresetBundle ==
    [][("apply" \in game'.ev) =>
        LET settings == DIFFICULTY_SETTINGS[game.state.current_difficulty]
        IN  /\ game'.config.INITIAL_FALL_SPEED = settings.initial_speed
            /\ game'.config.LEVEL_SPEED_DECREASE = settings.speed_decrease
            /\ game'.config.MIN_FALL_SPEED = settings.min_speed
            /\ game'.config.RISING_INITIAL_INTERVAL = settings.rising_initial_interval
            /\ game'.config.RISING_INTERVAL_DECREASE = settings.rising_interval_decrease
            /\ game'.config.RISING_MIN_INTERVAL = settings.rising_min_interval
            /\ game'.fall_speed
                   = Max(settings.initial_speed - (game.level - 1) * settings.speed_decrease,
                         settings.min_speed)]_vars

\* the easy preset has just been confirmed: the fall-speed parameters are
\* those of the preset, the rising-interval parameters are not
C29_RisingKept ==
    /\ "apply" \in game.ev
    /\ game.config.INITIAL_FALL_SPEED = DIFFICULTY_SETTINGS.easy.initial_speed
    /\ game.config.MIN_FALL_SPEED = DIFFICULTY_SETTINGS.easy.min_speed
    /\ game.config.RISING_INITIAL_INTERVAL # DIFFICULTY_SETTINGS.easy.rising_initial_interval
    /\ game.config.RISING_MIN_INTERVAL # DIFFICULTY_SETTINGS.easy.rising_min_interval

\* C30: leaving the configuration menu with ESC, after any sequence of
\* navigate and adjust commands, returns to Playing with every configuration
\* value and the fall speed equal to what they were when the menu was opened.
C30_CancelNoChange ==
    [][("cancel" \in game'.ev) =>
        /\ game'.state = PlayingState
        /\ game'.config = game.state.opened.config
        /\ game'.fall_speed = game.state.opened.fall_speed]_vars

\* the menu has just been left with ESC and the hold feature, on when the
\* session was constructed, is off, with the difficulty never changed
C30_CancelKeepsToggle ==
    /\ "cancel" \in game.ev
    /\ game.state = PlayingState
    /\ ~game.config.HOLD_ENABLED
    /\ game.config.INITIAL_FALL_SPEED = INITIAL_FALL_SPEED
    /\ game.rng_draws = 2

\* the uses of phantom mode that are left
PhantomUses(g) ==
    IF "phantom_mode" \in DOMAIN g.active_powerups THEN g.active_powerups["phantom_mode"]
    ELSE 0

\* the phantom charges among the stored blocks
PhantomStored(blocks) ==
    Cardinality({i \in 1..Len(blocks) : blocks[i][3] = "phantom_mode"})

\* the phantom charges the lock of the current piece stores
PhantomCarried(g) ==
    Cardinality({c \in DOMAIN g.current_piece.powerup_blocks :
                    /\ c \in LocalBlocks(g.current_piece.shape)
                    /\ g.current_piece.y + c[2] >= 0
                    /\ g.current_piece.powerup_blocks[c] = "phantom_mode"})

\* the cells a piece covers at an offset
CellsAt(piece, offset_x, offset_y) ==
    {<<b[1] + offset_x, b[2] + offset_y>> : b \in get_blocks(piece)}

OutOfBounds(cells) ==
    \E c \in cells : c[1] < 0 \/ c[1] >= GRID_WIDTH \/ c[2] >= GRID_HEIGHT

OnOccupied(g, cells) ==
    \E c \in cells :
        /\ c[1] >= 0 /\ c[1] < GRID_WIDTH /\ c[2] >= 0 /\ c[2] < GRID_HEIGHT
        /\ g.grid[c[2] + 1][c[1] + 1] # None

\* the placement check at every offset around the piece
PlacementCheck(g, piece) ==
    \A offset_x \in (-MaxOffset)..MaxOffset, offset_y \in (-MaxOffset)..MaxOffset :
        LET cells == CellsAt(piece, offset_x, offset_y)
            below == {c \in cells : c[2] >= 0}
        IN  is_valid_position(g, piece, offset_x, offset_y)
                = IF PhantomUses(g) > 0 THEN ~OutOfBounds(cells)
                  ELSE ~OutOfBounds(cells) /\ ~OnOccupied(g, below)

\* a lock of the current piece where it has landed
PhantomLock(g, t) ==
    /\ "lock" \in t.ev
    /\ PhantomUses(g) > 0
         => PhantomUses(t) = PhantomUses(g) - 1
                + USES_PHANTOM_MODE
                    * (PhantomStored(g.powerup_blocks) + PhantomCarried(g)
                         - PhantomStored(t.powerup_blocks))
    /\ PhantomUses(g) = 0
         => PhantomUses(t) = USES_PHANTOM_MODE
                * (PhantomStored(g.powerup_blocks) + PhantomCarried(g)
                     - PhantomStored(t.powerup_blocks))

\* C31: while phantom mode is active the placement check accepts occupied
\* cells and still rejects every placement with a cell at x < 0, x >= W or
\* y >= H; while it is inactive a cell with y >= 0 on an occupied grid cell
\* makes the placement invalid; cells with y < 0 are not tested against the
\* grid; every lock made while phantom mode is active consumes exactly one
\* use (an activation gives USES_PHANTOM_MODE = 3 of them), and nothing but a
\* lock consumes one.
C31_PhantomMode ==
    /\ game.current_piece.type # "None" => PlacementCheck(game, game.current_piece)
    /\ PlacementCheck(game, game.next_piece)
    /\ (game.state.name = "Playing" /\ game.current_piece.type # "None")
         => /\ \A r \in {drop_loop(Begin(game), 0)} :
                  /\ PhantomUses(r[1]) = PhantomUses(game)
                  /\ \A draw \in PhantomDraws : PhantomLock(r[1], lock_piece(r[1], draw))
            /\ \A key \in {"LEFT", "RIGHT", "DOWN", "UP"} :
                  PhantomUses(handle_input(Begin(game), key, NoPiece, NoPiece))
                      = PhantomUses(game)

\* one activation used up: a charged I cleared the bottom row, and the three O
\* pieces locked after it were dropped into the same four cells, each through
\* the one before
C31_Witness ==
    /\ "lock" \in game.ev
    /\ game.lines_cleared = 1
    /\ game.rng_draws = 6
    /\ PhantomUses(game) = 0
    /\ game.powerup_blocks = <<>>
    /\ game.state.name = "Playing"
    /\ ~game.game_over
    /\ \A x \in 2..3 : game.grid[GRID_HEIGHT][x] = "YELLOW" /\ game.grid[GRID_HEIGHT - 1][x] = "YELLOW"
    /\ game.grid[1] = EmptyRow
    /\ game.grid[2] = EmptyRow

\* the wall-kick offsets in the order of the claim
KickSequence == << <<0, 0>>, <<-1, 0>>, <<1, 0>>, <<0, -1>>, <<-1, -1>>, <<1, -1>> >>

\* the clockwise rotation of the current piece fits at the i-th offset
KickFits(g, i) ==
    is_valid_position(g, [g.current_piece EXCEPT !.shape = rotate_clockwise(@)],
                      KickSequence[i][1], KickSequence[i][2])

\* the first offset of the sequence that fits, 0 when none does
FirstKick(g) ==
    IF \E i \in 1..Len(KickSequence) : KickFits(g, i)
    THEN CHOOSE i \in 1..Len(KickSequence) :
             KickFits(g, i) /\ \A j \in 1..(i - 1) : ~KickFits(g, j)
    ELSE 0

\* C32: a rotation succeeds exactly when one of the offsets (0,0), (-1,0),
\* (1,0), (0,-1), (-1,-1), (1,-1) gives the rotated shape a valid placement,
\* and the piece then has the rotated shape displaced by the first offset of
\* that sequence that does: never by a later one, never by any other offset.
C32_WallKickOrder ==
    game.current_piece.type # "None"
    => \A t \in {rotate_piece(Begin(game))} :
          \A first \in {FirstKick(game)} :
             /\ ("rotated" \in t.ev) = (first # 0)
             /\ first # 0
                  => /\ t.current_piece.shape = rotate_clockwise(game.current_piece.shape)
                     /\ t.current_piece.x = game.current_piece.x + KickSequence[first][1]
                     /\ t.current_piece.y = game.current_piece.y + KickSequence[first][2]
                     /\ is_valid_position(t, t.current_piece, 0, 0)

\* a flat I piece that has fallen into the second row is rotated: upright it
\* does not fit there, nor one column to either side; the fourth offset, one
\* row up, is taken although the sixth fits as well
C32_Witness ==
    /\ game.state.name = "Playing"
    /\ game.current_piece.type = "I"
    /\ game.current_piece.y = 1
    /\ FirstKick(game) = 4
    /\ KickFits(game, 6)
    /\ \E t \in {handle_input(Begin(game), "UP", NoPiece, NoPiece)} :
          /\ "rotated" \in t.ev
          /\ t.current_piece.y = 0
          /\ t.current_piece.x = game.current_piece.x
          /\ Len(t.current_piece.shape) = 4

\* C33: for every set of marked rows the standalone game's
\* finish_clearing_animation (rows deleted in reverse order, an empty row
\* inserted on top after each deletion) produces the grid of the rebuild
\* algorithm: empty rows on top, then the unmarked rows in their order.
C33_LegacyRemoval ==
    game.clearing_lines # <<>>
    => \A draw \in ClearDraws :
          legacy_finish_clearing_animation(Begin(game), draw).grid
              = finish_clearing_animation(Begin(game), draw).grid

\* the two bottom rows were marked; the standalone game has deleted the
\* bottom row and, one index too high, the partly filled row above the pair:
\* a full row is still in the grid
C33_FullRowLeft ==
    /\ "finish" \in game.ev
    /\ game.removed = <<GRID_HEIGHT - 2, GRID_HEIGHT - 1>>
    /\ game.clearing_lines = <<>>
    /\ full_rows(game.grid) = <<GRID_HEIGHT - 1>>
    /\ game.grid[GRID_HEIGHT - 1] = EmptyRow

\* the commands that act on the piece
PieceKeys == {"LEFT", "RIGHT", "DOWN", "UP", "SPACE", "c"}

\* C34: in every reachable state the game_over flag is set iff the session
\* state is GameOver, and while game_over is set no movement, rotation, drop
\* or hold command changes the grid, the current piece or the score.
C34_GameOverConsistency ==
    /\ game.game_over <=> game.state.name = "GameOver"
    /\ game.game_over
         => \A key \in PieceKeys, draw \in OverDraws :
               \A t \in {handle_input(Begin(game), key, draw, draw)} :
                  /\ t.grid = game.grid
                  /\ t.current_piece = game.current_piece
                  /\ t.score = game.score

\* a game that ended with a spawn blocked at the end of a line clear and is
\* back in Playing: the hard drop command still locks the overlapping piece
\* into the grid
C34_OverButDropping ==
    /\ game.game_over
    /\ game.state.name = "Playing"
    /\ "spawn_blocked" \in game.ev
    /\ \E t \in {handle_input(Begin(game), "SPACE", AnyOf(OverDraws), AnyOf(OverDraws))} :
          /\ "lock" \in t.ev
          /\ t.grid # game.grid

\* every cell of the piece is inside the walls, above the floor and, when it
\* is inside the grid, on an empty cell
LivePieceValid(g) ==
    \A b \in get_blocks(g.current_piece) :
        /\ 0 <= b[1] /\ b[1] < GRID_WIDTH
        /\ b[2] < GRID_HEIGHT
        /\ b[2] >= 0 => g.grid[b[2] + 1][b[1] + 1] = None

\* C35: in every reachable Playing or Demo state with game_over false and
\* phantom mode inactive, every cell of the current piece has 0 <= x < W and
\* y < H and, when y >= 0, lies on an empty grid cell.
C35_LivePieceValid ==
    (/\ game.state.name \in {"Playing", "Demo"}
     /\ ~game.game_over
     /\ ~is_active(game, "phantom_mode")
     /\ game.current_piece.type # "None")
    => LivePieceValid(game)


\* a hold has swapped the held piece in at the spawn position, onto occupied
\* cells of the stack, and the game goes on in Playing
C35_SwapOntoStack ==
    /\ "hold" \in game.ev
    /\ "spawn" \notin game.ev
    /\ game.state.name = "Playing"
    /\ ~game.game_over
    /\ game.active_powerups = EmptyDict
    /\ game.current_piece = Tetromino(game.current_piece.type)
    /\ ~LivePieceValid(game)

\* the rows of the grid that are completely filled
FilledRows(g) ==
    {y \in 0..(GRID_HEIGHT - 1) : \A x \in 1..GRID_WIDTH : g.grid[y + 1][x] # None}

\* C36: in every reachable state that is not LineClearing the grid has no
\* completely filled row and clearing_lines is empty; in LineClearing
\* clearing_lines is exactly the set of completely filled rows.  A rising-line
\* insertion therefore never leaves a full row.
C36_NoStaleFullRows ==
    /\ game.state.name # "LineClearing"
         => FilledRows(game) = {} /\ game.clearing_lines = <<>>
    /\ game.state.name = "LineClearing"
         => /\ ClearedSet(game) = FilledRows(game)
            /\ FilledRows(game) # {}
            /\ Cardinality(FilledRows(game)) = Len(game.clearing_lines)


\* a rising line was inserted under the stack without filling a row, and the
\* piece locked into its hole has completed it: the clear in progress marks
\* that row and no other
C36_Witness ==
    /\ game.state.name = "LineClearing"
    /\ "lock" \in game.ev
    /\ game.clearing_lines = <<GRID_HEIGHT - 1>>
    /\ FilledRows(game) = {GRID_HEIGHT - 1}
    /\ \E x \in 1..GRID_WIDTH : game.grid[GRID_HEIGHT][x] = RISING_LINE_COLOR
    /\ \E x \in 1..GRID_WIDTH : game.grid[GRID_HEIGHT - 1][x] # None

\* C37: in every reachable state every stored power-up block has coordinates
\* inside the grid (0 <= x < W, 0 <= y < H), the grid cell at those
\* coordinates is occupied, and no two stored blocks share their coordinates.
C37_PowerUpsOnOccupied ==
    /\ \A i \in 1..Len(game.powerup_blocks) :
          LET b == game.powerup_blocks[i]
          IN  /\ 0 <= b[1] /\ b[1] < GRID_WIDTH
              /\ 0 <= b[2] /\ b[2] < GRID_HEIGHT
              /\ game.grid[b[2] + 1][b[1] + 1] # None
    /\ \A i \in 1..Len(game.powerup_blocks), j \in 1..Len(game.powerup_blocks) :
          i # j => <<game.powerup_blocks[i][1], game.powerup_blocks[i][2]>>
                     # <<game.powerup_blocks[j][1], game.powerup_blocks[j][2]>>


\* a charged piece was locked under phantom mode onto the cell of a stored
\* block: two stored blocks have the same coordinates
C37_TwoOnOneCell ==
    /\ "lock" \in game.ev
    /\ is_active(game, "phantom_mode")
    /\ Len(game.powerup_blocks) = 2
    /\ game.powerup_blocks[1][1] = game.powerup_blocks[2][1]
    /\ game.powerup_blocks[1][2] = game.powerup_blocks[2][2]
    /\ game.grid[game.powerup_blocks[1][2] + 1][game.powerup_blocks[1][1] + 1] # None

\* C38: while the session is in ConfigMenu a tick of any delta leaves the
\* grid, the current piece, the rising timer, the active power-up durations
\* and the game_over flag unchanged, and the session stays in ConfigMenu.
C38_MenuFreezes ==
    game.state.name = "ConfigMenu"
    => \A delta_time \in Deltas, draw \in FreezeDraws, holes \in SpecHoles :
          \A t \in {update(Begin(game), delta_time, "none", draw, draw, holes)} :
             /\ t.grid = game.grid
             /\ t.current_piece = game.current_piece
             /\ t.rising_timer = game.rising_timer
             /\ t.active_powerups = game.active_powerups
             /\ t.game_over = game.game_over
             /\ t.state = game.state

\* a tick in the configuration menu has inserted a rising line under the
\* current piece
C38_RisesInMenu ==
    /\ game.state.name = "ConfigMenu"
    /\ {"tick", "rise"} \subseteq game.ev
    /\ game.rising_timer = 0
    /\ game.rising_animation_active
    /\ game.grid[GRID_HEIGHT] = generate_rising_line(AnyOf(SpecHoles))
    /\ game.current_piece.y = -1


(***************************************************************************)
(* C39: the phases of the demo AI                                          *)
(***************************************************************************)
Phase(g) == IF g.state.name = "Demo" THEN ai_of(g.state).move_phase ELSE "none"

Tracked(g) == IF g.state.name = "Demo" THEN ai_of(g.state).current_piece_id ELSE NoId

PhaseRank(phase) ==
    CASE phase = "planning" -> 1
      [] phase = "holding" -> 2
      [] phase = "rotating" -> 3
      [] phase = "moving" -> 4
      [] phase = "dropping" -> 5
      [] phase = "waiting" -> 6
      [] OTHER -> 0

\* a step of a demo, from g to t, keeps the order of the phases: for the
\* piece the AI works on the phase only advances and does not come back from
\* holding to planning, a piece the AI turns to starts with its plan, and a
\* plan that holds is the plan of a hold that takes place
PhaseStep(g, t) ==
    (g.state.name = "Demo" /\ t.state.name = "Demo")
        => /\ (Tracked(t) = Tracked(g) /\ Tracked(g) # NoId)
                  => PhaseRank(Phase(t)) >= PhaseRank(Phase(g))
           /\ Tracked(t) # Tracked(g) => Phase(t) \in {"planning", "holding", "rotating"}
           /\ (Phase(t) = "holding" /\ Phase(g) # "holding")
                  => t.config.HOLD_ENABLED /\ t.can_hold

\* C39: for every piece the AI's phases go planning, at most one holding step,
\* then rotating, moving, dropping and waiting; the AI never returns from
\* holding to planning for the same current piece to choose the hold again,
\* and with the hold feature off its plan commits to no hold
C39_AiPhaseProgress == [][PhaseStep(game, game')]_vars

\* the hold feature is off, the AI is back in its planning phase after a hold
\* that was ignored, and its plan for the same piece is the hold again
C39_HoldsAgain ==
    /\ ~game.config.HOLD_ENABLED
    /\ Phase(game) = "planning"
    /\ "hold_ignored" \in game.ev
    /\ Tracked(game) = id(game)
    /\ _handle_planning_phase(game, ai_of(game.state)).ai.move_phase = "holding"


(***************************************************************************)
(* C40: every piece locks                                                  *)
(***************************************************************************)
\* a running session that is still followed
Running(g) == g.state.name \in {"Playing", "Demo"} /\ ~g.game_over /\ g.rng_draws <= LivePieces

Settled(g) == "lock" \in g.ev \/ g.game_over \/ g.state.name = "GameOver"

\* C40: from every reachable Playing or Demo state, while frames with a
\* positive delta keep arriving, the current piece is eventually locked into
\* the grid or the session reaches game over, whatever commands and rising
\* lines are interleaved
C40_EveryPieceLocks == Running(game) ~> Settled(game)


\* a rotation that its wall kick has moved up
LiftedByRotation == "rotated" \in game'.ev /\ game'.current_piece.y < game.current_piece.y

\* a key that has started a new game
Restarted == "reset" \in game'.ev

\* C40, amended: the same, for the sessions in which neither the rotations
\* that a wall kick moves up nor the new games go on forever
C40_LocksUnlessLiftedForever ==
    \/ []<><<LiftedByRotation>>_vars
    \/ []<><<Restarted>>_vars
    \/ Running(game) ~> Settled(game)


\* a frame has locked the piece of a game with rising lines on request in
\* which a piece was held
C40_Witness ==
    /\ "tick" \in game.ev /\ "lock" \in game.ev
    /\ game.hold_piece # NoPiece
    /\ game.config.RISING_MODE = "manual"
====
